---- MODULE Spec2Model ----
(***************************************************************************)
(* Model of the stexls linker (stexls/stex/linker.py) together with the    *)
(* parts of the symbol table (stexls/stex/symbols.py) and of the compiler  *)
(* (stexls/stex/compiler.py) that linking relies on.                       *)
(*                                                                         *)
(* A workspace is a set of source files.  Every file holds one module      *)
(* environment with a list of import statements.  compile_and_link is a    *)
(* recursive procedure; its activations are kept in the sequence `frames`, *)
(* one record per activation, and the dictionary `_stack` it threads       *)
(* through the recursion is the variable `stack`.                          *)
(***************************************************************************)
EXTENDS Integers, Sequences, FiniteSets, TLC

VARIABLES
    src,        \* content of the source files (what the parser would read)
    exists,     \* exists[f]: f is a file on disk (Path.is_file)
    mtime,      \* mtime[f]: st_mtime of f
    live,       \* live[f]: time of the last live edit of f reported by the workspace
    now,        \* value of time.time()
    cache,      \* Linker.cache
    frames,     \* activations of compile_and_link, outermost first
    stack,      \* the _stack dictionary shared by the activations
    result,     \* outcome of the last finished top-level call
    calls,      \* number of top-level calls made so far
    unnamed,    \* ModuleSymbol.UNNAMED_MODULE_COUNT
    cycleSites, \* import sites that received a cycle diagnostic in the current top-level call
    created,    \* number of StexObjects created so far; the identity of the next one
    earlier,    \* outcome of the top-level call before the last one
    probe,      \* arguments of the function under test when a function is tested alone
    walk,       \* the run of Compiler.compile or IntermediateParser.parse in progress,
                \* and ScopeSymbol.count
    ondisk,     \* what the objectfile of the compiled file holds on disk, or None
    loaded      \* what the last reader of the objectfile got, or None

vars == <<src, exists, mtime, live, now, cache, frames, stack, result, calls, unnamed, cycleSites,
          created, earlier, probe, walk,
                   ondisk, loaded>>

(***************************************************************************)
(* Bounds of the model.                                                    *)
(***************************************************************************)
MaxDeps == 2        \* import statements per file
MaxEdges == 3       \* import statements in the whole workspace
MaxCalls == 2       \* top-level calls of compile_and_link
MaxChanges == 1     \* files saved, edited or removed between calls
MaxFrames == MaxEdges + 3   \* cap of the recursion depth explored
MaxTime == 3        \* largest timestamp given to a function tested alone

Files == {"a", "b", "c"}

None == [py |-> "NoneType"]

(***************************************************************************)
(* Sequence helpers.                                                       *)
(***************************************************************************)
RECURSIVE Concat(_)
Concat(ss) == IF ss = <<>> THEN <<>> ELSE Head(ss) \o Concat(Tail(ss))

Range(s) == {s[i] : i \in DOMAIN s}

RECURSIVE NamesInOrder(_, _)
NamesInOrder(s, seen) ==
    IF s = <<>> THEN <<>>
    ELSE IF Head(s).name \in seen THEN NamesInOrder(Tail(s), seen)
    ELSE <<Head(s).name>> \o NamesInOrder(Tail(s), seen \cup {Head(s).name})

(***************************************************************************)
(* Symbols.  A symbol is a record; `children` is the dictionary            *)
(* name -> list of symbols, kept as the sequence of all children in        *)
(* insertion order (the list of one name is the subsequence of that name). *)
(* A parent pointer is the path (child indices) from the root symbol.      *)
(***************************************************************************)
PUBLIC == "PUBLIC"
PRIVATE == "PRIVATE"

\* parent is None or stands for the parent symbol (which one it is, is given by the
\* place of the symbol in the tree); noverbs is the set of languages in the order
\* an iteration over the set yields them
NewSymbol(cls, name, path) ==
    [cls |-> cls, name |-> name, path |-> path, access |-> PUBLIC, parent |-> None,
     type |-> "none", noverb |-> FALSE, noverbs |-> <<>>, children |-> <<>>]

RootSymbol(path) == NewSymbol("RootSymbol", "__root__", path)

NoName == ""

AnonymousName(n) == "__MODULESYMBOL#" \o ToString(n) \o "__"

\* ModuleSymbol.__init__: a module without a name gets a generated name and is PRIVATE
ModuleSymbol(module_type, path, name, count) ==
    IF name = NoName
    THEN [NewSymbol("ModuleSymbol", AnonymousName(count), path)
            EXCEPT !.type = module_type, !.access = PRIVATE]
    ELSE [NewSymbol("ModuleSymbol", name, path) EXCEPT !.type = module_type]

\* BindingSymbol.__init__ (the language of a binding plays no part in the symbol table)
BindingSymbol(path, module) == NewSymbol("BindingSymbol", module, path)

\* uuid.uuid4().hex of the count-th scope symbol of the process: a value that no other
\* scope symbol was given
uuid4(count) == "u" \o ToString(count)

\* ScopeSymbol.__init__: the name is made of the given name, the running count of the
\* class and a uuid
ScopeSymbol(path, name, count) ==
    NewSymbol("ScopeSymbol",
              "__" \o name \o "#" \o ToString(count) \o "@" \o uuid4(count) \o "__", path)

DefSymbol(def_type, path, name, noverb, noverbs, access) ==
    [NewSymbol("DefSymbol", name, path)
        EXCEPT !.type = def_type, !.noverb = noverb, !.noverbs = noverbs, !.access = access]

reference_type(sym) ==
    CASE sym.cls = "ModuleSymbol" -> sym.type       \* MODSIG or MODULE
      [] sym.cls = "DefSymbol" -> sym.type          \* DEF, DREF, SYM or SYMDEF
      [] sym.cls = "BindingSymbol" -> "BINDING"
      [] OTHER -> "UNDEFINED"

\* isinstance(symbol, cls) for the classes of symbols.py; DefType and ModuleType are enums
isinstance(sym, cls) == cls = "Symbol" \/ sym.cls = cls

shallow_copy(sym) == [sym EXCEPT !.children = <<>>, !.parent = None]

children_get(sym, name) == SelectSeq(sym.children, LAMBDA c : c.name = name)

\* children.values(): the lists of the dictionary in the order their names were first inserted
children_values(sym) ==
    LET names == NamesInOrder(sym.children, {})
    IN [i \in DOMAIN names |-> children_get(sym, names[i])]

RECURSIVE SymbolAt(_, _)
SymbolAt(sym, p) ==
    IF p = <<>> THEN sym ELSE SymbolAt(sym.children[Head(p)], Tail(p))

RECURSIVE ReplaceAt(_, _, _)
ReplaceAt(sym, p, new) ==
    IF p = <<>> THEN new
    ELSE [sym EXCEPT !.children[Head(p)] = ReplaceAt(sym.children[Head(p)], Tail(p), new)]

ParentPath(p) == SubSeq(p, 1, Len(p) - 1)

RECURSIVE Paths(_)
Paths(sym) ==
    {<<>>} \cup UNION {{<<n>> \o p : p \in Paths(sym.children[n])} : n \in DOMAIN sym.children}

\* the value of child.parent once child is a child of self
ParentOf(self) == [py |-> "Symbol", name |-> self.name]

\* add_child raising DuplicateSymbolDefinedError for every child of the same name
AddChildAnyType(self, child, alternative) ==
    IF children_get(self, child.name) # <<>> /\ ~alternative
    THEN [raised |-> [py |-> "DuplicateSymbolDefinedError", name |-> child.name],
          self |-> self, child |-> child]
    ELSE [raised |-> None,
          self |-> [self EXCEPT !.children = Append(@, [child EXCEPT !.parent = ParentOf(self)])],
          child |-> [child EXCEPT !.parent = ParentOf(self)]]

\* Symbol.add_child: the result is the exception raised (or None), the parent afterwards and
\* the child afterwards
add_child(self, child, alternative) ==
    LET prev == SelectSeq(children_get(self, child.name),
                          LAMBDA c : reference_type(c) = reference_type(child))
        Mismatch(prev_child) ==
            \/ ~isinstance(prev_child, child.cls)
            \/ /\ isinstance(child, "DefSymbol")
               /\ \/ child.type # prev_child.type
                  \/ child.noverb # prev_child.noverb
                  \/ child.noverbs # prev_child.noverbs
        inserted == [child EXCEPT !.parent = ParentOf(self)]
    IN IF child.parent # None
       THEN [raised |-> [py |-> "ValueError", name |-> child.name], self |-> self, child |-> child]
       ELSE IF prev # <<>> /\ ~alternative
       THEN [raised |-> [py |-> "DuplicateSymbolDefinedError", name |-> child.name],
             self |-> self, child |-> child]
       ELSE IF \E i \in DOMAIN prev : Mismatch(prev[i])
       THEN [raised |-> [py |-> "InvalidSymbolRedifinitionException", name |-> child.name],
             self |-> self, child |-> child]
       ELSE [raised |-> None, self |-> [self EXCEPT !.children = Append(@, inserted)],
             child |-> inserted]

\* Symbol.find: downward search
RECURSIVE find(_, _)
find(self, identifier) ==
    IF identifier = <<>> THEN <<self>>
    ELSE LET children == children_get(self, Head(identifier))
         IN IF Len(identifier) > 1
            THEN Concat([i \in DOMAIN children |-> find(children[i], Tail(identifier))])
            ELSE children

\* a ReferenceType flag (or None) taken as a condition, and `reference type in flag`
ReferenceType(flags) == [py |-> "ReferenceType", flags |-> flags]
FlagSet(accepted_ref_type) == accepted_ref_type # None /\ accepted_ref_type.flags # {}
FlagIn(ref_type, accepted_ref_type) == ref_type \in accepted_ref_type.flags

\* lookup going on to the parent through modules and bindings as well
RECURSIVE LookupThroughModules(_, _, _, _)
LookupThroughModules(root, p, identifier, accepted_ref_type) ==
    LET self == SymbolAt(root, p)
        roots == children_get(self, Head(identifier))
        resolved_symbols ==
            SelectSeq(Concat([i \in DOMAIN roots |-> find(roots[i], Tail(identifier))]),
                      LAMBDA symbol : \/ ~FlagSet(accepted_ref_type)
                                      \/ FlagIn(reference_type(symbol), accepted_ref_type))
    IN IF resolved_symbols # <<>> THEN resolved_symbols
       ELSE IF p # <<>>
       THEN LookupThroughModules(root, ParentPath(p), identifier, accepted_ref_type)
       ELSE IF self.name = Head(identifier) THEN find(self, Tail(identifier))
       ELSE resolved_symbols

\* Symbol.lookup on the symbol at path p of the tree root
RECURSIVE lookup(_, _, _, _)
lookup(root, p, identifier, accepted_ref_type) ==
    LET self == SymbolAt(root, p)
        roots == children_get(self, Head(identifier))
        resolved_symbols ==
            SelectSeq(Concat([i \in DOMAIN roots |-> find(roots[i], Tail(identifier))]),
                      LAMBDA symbol : \/ ~FlagSet(accepted_ref_type)
                                      \/ FlagIn(reference_type(symbol), accepted_ref_type))
    IN IF resolved_symbols # <<>> THEN resolved_symbols
       ELSE IF p # <<>> /\ ~isinstance(self, "ModuleSymbol") /\ ~isinstance(self, "BindingSymbol")
       THEN lookup(root, ParentPath(p), identifier, accepted_ref_type)
       ELSE IF self.name = Head(identifier) THEN find(self, Tail(identifier))
       ELSE resolved_symbols

\* Symbol.get_current_module: the nearest enclosing ModuleSymbol (a symbol object) or None
RECURSIVE get_current_module(_, _)
get_current_module(root, p) ==
    LET self == SymbolAt(root, p)
    IN IF isinstance(self, "ModuleSymbol")
       THEN [py |-> "ModuleSymbol", name |-> self.name, file |-> self.path]
       ELSE IF p # <<>> THEN get_current_module(root, ParentPath(p))
       ELSE None

\* AccessModifier is a Flag: PUBLIC = 0, PROTECTED = 1, PRIVATE = 3; a | b is the stronger one
AccessOr(a, b) ==
    IF PRIVATE \in {a, b} THEN PRIVATE
    ELSE IF "PROTECTED" \in {a, b} THEN "PROTECTED" ELSE PUBLIC

\* Symbol.get_visible_access_modifier
RECURSIVE get_visible_access_modifier(_, _)
get_visible_access_modifier(root, p) ==
    LET self == SymbolAt(root, p)
    IN IF p # <<>> /\ self.access # PRIVATE
       THEN AccessOr(get_visible_access_modifier(root, ParentPath(p)), self.access)
       ELSE self.access

\* the inner loop of import_from over one list of alternatives: Def children are
\* copied into the copy cpy (the child number k of self), Module children are
\* imported into self; collisions are swallowed
\* import_from that copies the module and nothing below it
ImportCopyOnly(self, module) == add_child(self, shallow_copy(module), FALSE)

RECURSIVE import_from(_, _)
RECURSIVE ImportAlts(_, _, _, _)
ImportAlts(self, k, alts, j) ==
    IF j > Len(alts) THEN self
    ELSE LET child == alts[j]
             next ==
               IF child.access # PUBLIC THEN self
               ELSE IF isinstance(child, "ModuleSymbol")
               THEN import_from(self, child).self
               ELSE IF isinstance(child, "DefSymbol")
               THEN [self EXCEPT !.children[k] =
                        add_child(@, shallow_copy(child), Len(alts) > 1).self]
               ELSE self
         IN ImportAlts(next, k, alts, j + 1)

RECURSIVE ImportValues(_, _, _, _)
ImportValues(self, k, values, j) ==
    IF j > Len(values) THEN self
    ELSE ImportValues(ImportAlts(self, k, values[j], 1), k, values, j + 1)

\* Symbol.import_from: the exception raised (or None) and self afterwards
import_from(self, module) ==
    LET added == add_child(self, shallow_copy(module), FALSE)
    IN IF added.raised # None THEN added
       ELSE [raised |-> None,
             self |-> ImportValues(added.self, Len(added.self.children),
                                   children_values(module), 1)]

(***************************************************************************)
(* import_from on objects.  Above, a symbol is a value and a call returns   *)
(* the new value of self.  Here the symbols are objects: objects maps the   *)
(* identity of each symbol to its attributes, parent and children being     *)
(* identities, and a call returns the objects afterwards, so that every     *)
(* write of the call to any symbol shows.                                   *)
(***************************************************************************)
Object(root, at) == [root |-> root, at |-> at]

\* the parent of a symbol without parent
NoObject == Object("none", <<>>)

\* the objects of the tree sym: the symbol at path p is the object Object(root, p)
ObjectsOf(root, sym, parent) ==
    [i \in {Object(root, p) : p \in Paths(sym)} |->
        LET at == SymbolAt(sym, i.at)
        IN [at EXCEPT !.parent = IF i.at = <<>> THEN parent ELSE Object(root, ParentPath(i.at)),
                      !.children = [k \in DOMAIN at.children |-> Object(root, i.at \o <<k>>)]]]

\* the symbol (a value) that the object i stands for
RECURSIVE ValueOf(_, _)
ValueOf(objects, i) ==
    [objects[i] EXCEPT
        !.parent = IF objects[i].parent = NoObject THEN None
                   ELSE ParentOf(objects[objects[i].parent]),
        !.children = [k \in DOMAIN objects[i].children |-> ValueOf(objects, objects[i].children[k])]]

\* a constructor call: a new object
Allocate(objects, attributes) ==
    LET id == Object("new", <<Cardinality({i \in DOMAIN objects : i.root = "new"}) + 1>>)
    IN [id |-> id, objects |-> (id :> attributes) @@ objects]

\* shallow_copy: a new object without parent and children
ShallowCopyObject(objects, i) ==
    Allocate(objects, [objects[i] EXCEPT !.parent = NoObject, !.children = <<>>])

\* Symbol.add_child: self.children[child.name].append(child) and child.parent = self,
\* unless add_child raises
AddChildObject(objects, self, child, alternative) ==
    LET raised == add_child(ValueOf(objects, self), ValueOf(objects, child), alternative).raised
    IN [raised |-> raised,
        objects |-> IF raised # None THEN objects
                    ELSE [objects EXCEPT ![self].children = Append(@, child),
                                         ![child].parent = self]]

\* module.children.values()
ChildrenValuesObjects(objects, module) ==
    LET children == objects[module].children
        names == NamesInOrder([k \in DOMAIN children |-> objects[children[k]]], {})
    IN [n \in DOMAIN names |-> SelectSeq(children, LAMBDA c : objects[c].name = names[n])]

RECURSIVE ImportFromObjects(_, _, _)

\* variant for the sensitivity of C30: the copies of the definitions are added to the
\* module that is imported
RECURSIVE ImportAltsIntoModule(_, _, _, _, _, _)
ImportAltsIntoModule(objects, self, module, cpy, alts, j) ==
    IF j > Len(alts) THEN objects
    ELSE LET child == alts[j]
             next ==
               IF objects[child].access # PUBLIC THEN objects
               ELSE IF isinstance(objects[child], "ModuleSymbol")
               THEN ImportFromObjects(objects, self, child).objects
               ELSE IF isinstance(objects[child], "DefSymbol")
               THEN LET copy == ShallowCopyObject(objects, child)
                    IN AddChildObject(copy.objects, module, copy.id, TRUE).objects
               ELSE objects
         IN ImportAltsIntoModule(next, self, module, cpy, alts, j + 1)

\* the inner loop of import_from
RECURSIVE ImportAltsObjects(_, _, _, _, _, _)
ImportAltsObjects(objects, self, module, cpy, alts, j) ==
    IF j > Len(alts) THEN objects
    ELSE LET child == alts[j]
             next ==
               IF objects[child].access # PUBLIC THEN objects
               ELSE IF isinstance(objects[child], "ModuleSymbol")
               THEN ImportFromObjects(objects, self, child).objects
               ELSE IF isinstance(objects[child], "DefSymbol")
               THEN LET copy == ShallowCopyObject(objects, child)
                    IN AddChildObject(copy.objects, cpy, copy.id, Len(alts) > 1).objects
               ELSE objects
         IN ImportAltsObjects(next, self, module, cpy, alts, j + 1)

\* the outer loop of import_from; the lists were taken from module.children.values()
\* of the objects at the time the loop reaches them
RECURSIVE ImportValuesObjects(_, _, _, _, _)
ImportValuesObjects(objects, self, module, cpy, n) ==
    LET values == ChildrenValuesObjects(objects, module)
    IN IF n > Len(values) THEN objects
       ELSE ImportValuesObjects(ImportAltsObjects(objects, self, module, cpy, values[n], 1),
                                self, module, cpy, n + 1)

\* Symbol.import_from: the exception raised (or None) and the objects afterwards
ImportFromObjects(objects, self, module) ==
    LET cpy == ShallowCopyObject(objects, module)
        added == AddChildObject(cpy.objects, self, cpy.id, FALSE)
    IN IF added.raised # None THEN added
       ELSE [raised |-> None,
             objects |-> ImportValuesObjects(added.objects, self, module, cpy.id, 1)]

(***************************************************************************)
(* Compiler: StexObject, Dependency, Reference and Compiler.compile.       *)
(* A source file consists of a module environment (named after the file,   *)
(* anonymous, or named and nested in an anonymous one) that contains symi  *)
(* declarations followed by importmodule/usemodule statements.  The range  *)
(* of a statement is its line.                                             *)
(***************************************************************************)
ModuleLine == 0
InnerModuleLine == 50
SymLine(j) == 10 + j
ImportLine(j) == 20 + j
SymdefLine(j) == 30 + j

\* id is the identity of the object (Python's id(obj)): two objects are the same
\* object when they carry the same id
StexObject(file, t) ==
    [id |-> created, file |-> file, symbol_table |-> RootSymbol(file), dependencies |-> <<>>,
     references |-> <<>>, errors |-> <<>>, creation_time |-> t]

\* errors.setdefault(range, []).append(err)
AddError(obj, range, err) == [obj EXCEPT !.errors = Append(@, [range |-> range, err |-> err])]

ErrorsAt(obj, range) == SelectSeq(obj.errors, LAMBDA e : e.range = range)

IsProperPrefix(p, q) == Len(p) < Len(q) /\ SubSeq(q, 1, Len(p)) = p

\* Dependency.check_if_same_module_imported
check_if_same_module_imported(self, other) ==
    /\ self.module_name = other.module_name
    /\ (self.scope = other.scope \/ IsProperPrefix(self.scope, other.scope))

\* StexObject.add_dependency
add_dependency(obj, dep) ==
    IF \E i \in DOMAIN obj.dependencies :
            check_if_same_module_imported(obj.dependencies[i], dep)
    THEN AddError(obj, dep.range, [py |-> "Warning", what |-> "redundant import"])
    ELSE [obj EXCEPT !.dependencies = Append(@, dep)]

\* Compiler._compile_sym for the symi declarations number j.. of the module at context
RECURSIVE CompileSyms(_, _, _, _)
CompileSyms(obj, context, syms, j) ==
    IF j > Len(syms) THEN obj
    ELSE LET symbol == DefSymbol("SYM", obj.file, syms[j], FALSE, <<>>,
                           get_visible_access_modifier(obj.symbol_table, context))
             added == add_child(SymbolAt(obj.symbol_table, context), symbol, FALSE)
             next == IF added.raised # None
                     THEN AddError(obj, SymLine(j), added.raised)
                     ELSE [obj EXCEPT !.symbol_table = ReplaceAt(@, context, added.self)]
         IN CompileSyms(next, context, syms, j + 1)

\* the path of the module get_current_module returns
RECURSIVE CurrentModulePath(_, _)
CurrentModulePath(root, p) ==
    IF isinstance(SymbolAt(root, p), "ModuleSymbol") THEN p
    ELSE CurrentModulePath(root, ParentPath(p))

\* Compiler._compile_symdef for the symdef statements number j..; the noverbs of a statement
\* are the languages of set(text.split(',')) in the order the set iterates over them
_compile_symdef(obj, context, symdef, range) ==
    IF get_current_module(obj.symbol_table, context) = None
    THEN AddError(obj, range, [py |-> "CompilerError", what |-> "invalid symdef location"])
    ELSE LET module == CurrentModulePath(obj.symbol_table, context)
             symbol == DefSymbol("SYMDEF", obj.file, symdef.name, symdef.noverb, symdef.noverbs,
                                 get_visible_access_modifier(obj.symbol_table, context))
             added == add_child(SymbolAt(obj.symbol_table, module), symbol, TRUE)
         IN IF added.raised # None
            THEN AddError(obj, range, added.raised)
            ELSE [obj EXCEPT !.symbol_table = ReplaceAt(@, module, added.self)]

RECURSIVE CompileSymdefs(_, _, _, _)
CompileSymdefs(obj, context, symdefs, j) ==
    IF j > Len(symdefs) THEN obj
    ELSE CompileSymdefs(_compile_symdef(obj, context, symdefs[j], SymdefLine(j)),
                        context, symdefs, j + 1)

\* Compiler._compile_importmodule for the import statements number j..
_compile_importmodule(obj, context, importmodule, range) ==
    LET dep == [range |-> range, scope |-> context,
                module_name |-> importmodule.module, module_type_hint |-> "MODULE",
                file_hint |-> importmodule.file, export |-> importmodule.export]
        ref == [range |-> range, scope |-> context,
                name |-> <<importmodule.module>>, reference_type |-> {"MODULE"}]
    IN [add_dependency(obj, dep) EXCEPT !.references = Append(@, ref)]

RECURSIVE CompileImports(_, _, _, _)
CompileImports(obj, context, imports, j) ==
    IF j > Len(imports) THEN obj
    ELSE CompileImports(_compile_importmodule(obj, context, imports[j], ImportLine(j)),
                        context, imports, j + 1)

\* what a handler returns that returns no context symbol (None); a context symbol is the
\* path of a symbol a handler inserted, never the empty path of the root
NoContext == <<>>

\* Compiler._compile_modsig: the object and the context the handler returns
_compile_modsig(obj, context, name, range) ==
    LET located == IF SymbolAt(obj.symbol_table, context).cls # "RootSymbol"
                   THEN AddError(obj, range, [py |-> "CompilerError", what |-> "invalid modsig location"])
                   ELSE obj
        named == IF obj.file # name
                 THEN AddError(located, range, [py |-> "CompilerWarning", what |-> "invalid modsig filename"])
                 ELSE located
        added == add_child(SymbolAt(obj.symbol_table, context),
                           ModuleSymbol("MODSIG", obj.file, name, 0), FALSE)
    IN [obj |-> [named EXCEPT !.symbol_table = ReplaceAt(@, context, added.self)],
        context |-> IF added.raised = None THEN context \o <<Len(added.self.children)>>
                    ELSE NoContext]

\* Compiler._compile_scope: ScopeSymbol.count has been counted up to count for the new scope
_compile_scope(obj, context, name, count) ==
    LET added == add_child(SymbolAt(obj.symbol_table, context), ScopeSymbol(obj.file, name, count),
                           FALSE)
    IN [obj |-> [obj EXCEPT !.symbol_table = ReplaceAt(@, context, added.self)],
        context |-> context \o <<Len(added.self.children)>>]

\* Compiler._compile_module: insert the module symbol under context; the new context
CompileModule(obj, context, name, line, count) ==
    LET checked == IF SymbolAt(obj.symbol_table, context).cls # "RootSymbol"
                   THEN AddError(obj, line, [py |-> "CompilerError", what |-> "invalid module location"])
                   ELSE obj
        symbol == ModuleSymbol("MODULE", obj.file, name, count)
        added == add_child(SymbolAt(obj.symbol_table, context), symbol, FALSE)
    IN [obj |-> [checked EXCEPT !.symbol_table = ReplaceAt(@, context, added.self)],
        context |-> IF added.raised = None THEN context \o <<Len(added.self.children)>>
                    ELSE NoContext,
        count |-> IF name = NoName THEN count + 1 ELSE count]

\* no call of compile is running; scopes is ScopeSymbol.count
Idle(scopes) == [status |-> "idle", scopes |-> scopes]

\* Compiler.compile: the exception raised (or None), the object, and UNNAMED_MODULE_COUNT
\* and ScopeSymbol.count afterwards.  The file holds a module of its name ("module"), an
\* anonymous module ("anonymous"), a module of its name in an anonymous module ("nested")
\* or a module of its name whose statements stand in an omtext environment ("scoped").
compile(file, content, isfile, count, scopes, t) ==
    IF ~isfile
    THEN [raised |-> [py |-> "FileNotFoundError", file |-> file], obj |-> None, count |-> count,
          scopes |-> scopes]
    ELSE LET object == StexObject(file, t)
             outer == IF content.shape \in {"module", "scoped"}
                      THEN CompileModule(object, <<>>, file, ModuleLine, count)
                      ELSE CompileModule(object, <<>>, NoName, ModuleLine, count)
             inner == IF content.shape = "nested"
                      THEN CompileModule(outer.obj, outer.context, file, InnerModuleLine, outer.count)
                      ELSE IF content.shape = "scoped"
                      THEN _compile_scope(outer.obj, outer.context, "omtext", scopes + 1)
                               @@ [count |-> outer.count]
                      ELSE outer
             withsyms == CompileSyms(inner.obj, inner.context, content.syms, 1)
         IN [raised |-> None,
             obj |-> CompileImports(withsyms, inner.context, content.imports, 1),
             count |-> inner.count,
             scopes |-> IF content.shape = "scoped" THEN scopes + 1 ELSE scopes]

\* Python's truth value of an optional number (None or a float)
Truthy(x) == x # None /\ x.value # 0

\* variant for the sensitivity of C13: equal timestamps count as outdated
RecompilationOnEqual(objectfile, file, time_modified) ==
    IF ~objectfile.is_file THEN TRUE
    ELSE IF Truthy(time_modified) /\ objectfile.st_mtime <= time_modified.value THEN TRUE
    ELSE objectfile.st_mtime <= file.st_mtime

\* Compiler.recompilation_required; objectfile and file are what is_file() and
\* lstat() tell about the objectfile and the source file
recompilation_required(objectfile, file, time_modified) ==
    IF ~objectfile.is_file THEN TRUE
    ELSE IF Truthy(time_modified) /\ objectfile.st_mtime < time_modified.value THEN TRUE
    ELSE IF objectfile.st_mtime < file.st_mtime THEN TRUE
    ELSE FALSE

(***************************************************************************)
(* Linker.                                                                 *)
(***************************************************************************)
LinkError(what, module) == [py |-> "LinkError", what |-> what, module |-> module]

CycleError(cyclic_dep, file, dep) ==
    [py |-> "LinkError", what |-> "cycle", module |-> cyclic_dep.module_name,
     at_file |-> file, at_range |-> dep.range]

\* variant for the sensitivity of C8: the access modifier is not tested
ImportableAlways(module) == TRUE

\* the test of link_dependency that lets a module be imported
Importable(module) == module.access = PUBLIC

\* link_dependency importing the first match whenever there is one
LinkFirstMatch(obj, dependency, imported) ==
    LET alts == lookup(imported.symbol_table, <<>>, <<dependency.module_name>>, None)
    IN IF alts = <<>>
       THEN [raised |-> None,
             obj |-> AddError(obj, dependency.range, LinkError("not defined", dependency.module_name))]
       ELSE LET imp == import_from(SymbolAt(obj.symbol_table, dependency.scope), alts[1])
            IN IF imp.raised # None
               THEN [raised |-> imp.raised, obj |-> obj]
               ELSE [raised |-> None,
                     obj |-> [obj EXCEPT !.symbol_table = ReplaceAt(@, dependency.scope, imp.self)]]

\* Linker.link_dependency: the exception raised (or None) and obj afterwards
link_dependency(obj, dependency, imported) ==
    LET alts == lookup(imported.symbol_table, <<>>, <<dependency.module_name>>, None)
    IN IF Len(alts) > 1
       THEN [raised |-> None,
             obj |-> AddError(obj, dependency.range, LinkError("not unique", dependency.module_name))]
       ELSE IF alts = <<>>
       THEN [raised |-> None,
             obj |-> AddError(obj, dependency.range, LinkError("not defined", dependency.module_name))]
       ELSE IF ~Importable(alts[1])
       THEN [raised |-> None,
             obj |-> AddError(obj, dependency.range, LinkError("private", dependency.module_name))]
       ELSE LET imp == import_from(SymbolAt(obj.symbol_table, dependency.scope), alts[1])
            IN IF imp.raised # None
               THEN [raised |-> imp.raised, obj |-> obj]
               ELSE [raised |-> None,
                     obj |-> [obj EXCEPT !.symbol_table = ReplaceAt(@, dependency.scope, imp.self)]]

\* Linker._load_linked
_load_linked(usemodule_on_stack, file, module) ==
    IF <<usemodule_on_stack, file, module>> \in DOMAIN cache
    THEN cache[<<usemodule_on_stack, file, module>>]
    ELSE [mtime |-> None, obj |-> None]

\* Linker._store_linked
_store_linked(c, usemodule_on_stack, file, module, obj, t) ==
    [k \in DOMAIN c \cup {<<usemodule_on_stack, file, module>>} |->
        IF k = <<usemodule_on_stack, file, module>> THEN [mtime |-> t, obj |-> obj] ELSE c[k]]

\* Symbol.flat: all symbols below sym
RECURSIVE flat(_)
flat(sym) ==
    Concat([i \in DOMAIN sym.children |-> <<sym.children[i]>> \o flat(sym.children[i])])

\* Workspace.get_time_live_modified
get_time_live_modified(file) == live[file]

\* variant for the sensitivity of C12: only the file of the entry is examined
RelinkFileOnly(file, module_name, usemodule_on_stack) ==
    LET entry == _load_linked(usemodule_on_stack, file, module_name)
    IN IF entry.obj = None THEN [raised |-> None, value |-> TRUE]
       ELSE IF ~exists[file]
       THEN [raised |-> [py |-> "FileNotFoundError", file |-> file], value |-> TRUE]
       ELSE [raised |-> None,
             value |-> entry.mtime < mtime[file] \/ entry.mtime < get_time_live_modified(file)]

\* Linker._relink_required: the exception raised (or None) and the value returned
_relink_required(file, module_name, usemodule_on_stack) ==
    LET entry == _load_linked(usemodule_on_stack, file, module_name)
        symbols == flat(entry.obj.symbol_table)
        paths == {symbols[i].path : i \in DOMAIN symbols}
                    \cup {entry.obj.dependencies[i].file_hint : i \in DOMAIN entry.obj.dependencies}
    IN IF entry.obj = None THEN [raised |-> None, value |-> TRUE]
       ELSE IF ~exists[file]
       THEN [raised |-> [py |-> "FileNotFoundError", file |-> file], value |-> TRUE]
       ELSE IF entry.mtime < mtime[file] \/ entry.mtime < get_time_live_modified(file)
       THEN [raised |-> None, value |-> TRUE]
       ELSE [raised |-> None,
             value |-> \E path \in paths :
                          \/ exists[path] /\ entry.mtime < mtime[path]
                          \/ entry.mtime < get_time_live_modified(path)]

WrongType(ref) == [py |-> "LinkError", what |-> "wrong type", name |-> ref.name]

\* the checks of validate_linked_object on one resolved symbol
RECURSIVE ValidateResolved(_, _, _, _)
ValidateResolved(linked, ref, resolved, j) ==
    IF j > Len(resolved) THEN linked
    ELSE LET symbol == resolved[j]
             next ==
               IF isinstance(symbol, "DefType")
               THEN IF "DEF" \notin ref.reference_type
                    THEN AddError(linked, ref.range, WrongType(ref))
                    ELSE IF symbol.noverb   \* the warning for a language of noverbs is left
                    THEN AddError(linked, ref.range, [py |-> "LinkWarning", what |-> "noverb", name |-> ref.name])
                    ELSE linked             \* out: no symbol is an instance of DefType
               ELSE IF isinstance(symbol, "ModuleSymbol")
               THEN IF symbol.type = "MODSIG" /\ "MODSIG" \notin ref.reference_type
                    THEN AddError(linked, ref.range, WrongType(ref))
                    ELSE IF symbol.type = "MODULE" /\ "MODULE" \notin ref.reference_type
                    THEN AddError(linked, ref.range, WrongType(ref))
                    ELSE linked
               ELSE linked
         IN ValidateResolved(next, ref, resolved, j + 1)

\* Linker.validate_linked_object for the references number j..
RECURSIVE ValidateReferences(_, _)
ValidateReferences(linked, j) ==
    IF j > Len(linked.references) THEN linked
    ELSE LET ref == linked.references[j]
             resolved == lookup(linked.symbol_table, ref.scope, ref.name, None)
             checked == IF resolved = <<>>
                        THEN AddError(linked, ref.range,
                                [py |-> "LinkError", what |-> "undefined", name |-> ref.name])
                        ELSE linked
         IN ValidateReferences(ValidateResolved(checked, ref, resolved, 1), j + 1)

validate_linked_object(linked) == ValidateReferences(linked, 1)

(***************************************************************************)
(* Linker.compile_and_link as a state machine.  An activation is a record  *)
(* of its parameters and locals; i is the index of the dependency the for  *)
(* loop is at.  An entry of _stack names the object and the dependency by  *)
(* the activation that holds the object and the index of the dependency.   *)
(***************************************************************************)
Activation(file, required, obj, toplevel, usemodule) ==
    [file |-> file, required_symbol_names |-> required, obj |-> obj, i |-> 1,
     _toplevel_module |-> toplevel, _usemodule_on_stack |-> usemodule]

Top == frames[Len(frames)]
Dep == Top.obj.dependencies[Top.i]
InLoop == frames # <<>> /\ Top.i <= Len(Top.obj.dependencies)

Key(dep) == <<dep.file_hint, dep.module_name>>

\* Python's == between a str and a symbol object or None: values of different types differ
PyStr(s) == [py |-> "str", value |-> s]
PyEq(x, y) == x = y

\* line 63: the dependency does not belong to a required module
SkipNotRequired(fr, dep) ==
    /\ fr.required_symbol_names # <<>>
    /\ SymbolAt(fr.obj.symbol_table, dep.scope).name \notin Range(fr.required_symbol_names)

\* variant for the sensitivity of C9: a usemodule is followed at every depth
SkipPrivateNever(dep, stk) == FALSE

\* line 65: a usemodule below the top level
SkipPrivateImport(dep, stk) == ~dep.export /\ DOMAIN stk # {}

\* line 70: the import of the top-level module below a usemodule
SkipToplevel(fr, dep) ==
    fr._usemodule_on_stack /\ PyEq(PyStr(dep.module_name), fr._toplevel_module)

Skipped(fr, dep, stk) ==
    SkipNotRequired(fr, dep) \/ SkipPrivateImport(dep, stk) \/ SkipToplevel(fr, dep)

\* variant for the sensitivity of C1: the stack is searched for the file alone
OnStackByFile(dep, stk) == <<dep.file_hint>> \in DOMAIN stk

\* line 75: the context of the dependency is on the stack
OnStack(dep, stk) == Key(dep) \in DOMAIN stk

\* variant for the sensitivity of C3 and C4: the cycle is reported at the
\* dependency that closes it, in the object of the running activation
ClosingSite(dep, stk) == [frame |-> Len(frames), dep |-> frames[Len(frames)].i]

\* line 77: the object and the dependency a cycle is reported at
CyclicSite(dep, stk) == stk[Key(dep)]

update_usemodule_on_stack(fr, dep) == fr._usemodule_on_stack \/ ~dep.export

\* _toplevel_module or dep.scope.get_current_module()
ToplevelFor(fr, dep) ==
    IF fr._toplevel_module # None THEN fr._toplevel_module
    ELSE get_current_module(fr.obj.symbol_table, dep.scope)

Continue(frs) == [frs EXCEPT ![Len(frs)].i = @ + 1]

\* variant for the sensitivity of C28: the entry stays on the stack
DeleteNothing(stk, key) == stk

\* del _stack[key]
Delete(stk, key) == [k \in DOMAIN stk \ {key} |-> stk[k]]

\* An exception leaves the activation on top of frs.  Every activation but the
\* outermost runs inside the try statement of its caller (lines 87 to 99).
Propagate(frs, stk, err) ==
    IF Len(frs) = 1
    THEN /\ frames' = <<>>
         /\ stack' = stk
         /\ result' = [status |-> "raised", file |-> frs[1].file, err |-> err]
    ELSE LET caller == frs[Len(frs) - 1]
             dep == caller.obj.dependencies[caller.i]
             callers == SubSeq(frs, 1, Len(frs) - 1)
         IN /\ frames' = Continue([callers EXCEPT ![Len(callers)].obj = AddError(@, dep.range, err)])
            /\ stack' = Delete(stk, Key(dep))
            /\ UNCHANGED result

\* a client calls linker.compile_and_link(file)
CompileAndLink(file) ==
    /\ frames = <<>>
    /\ calls < MaxCalls
    /\ calls' = calls + 1
    /\ cycleSites' = <<>>
    /\ earlier' = result
    /\ LET c == compile(file, src[file], exists[file], unnamed, walk.scopes, now)
       IN IF c.raised # None
          THEN /\ result' = [status |-> "raised", file |-> file, err |-> c.raised]
               /\ UNCHANGED <<frames, stack, unnamed, created, walk>>
          ELSE /\ frames' = <<Activation(file, <<>>, c.obj, None, FALSE)>>
               /\ stack' = <<>>
               /\ unnamed' = c.count
               /\ walk' = Idle(c.scopes)
               /\ created' = created + 1
               /\ result' = [status |-> "running", file |-> file]
    /\ UNCHANGED <<src, exists, mtime, live, now, cache, probe, ondisk, loaded>>

\* lines 63 to 74: the dependency is skipped
LoopSkip ==
    /\ InLoop
    /\ Skipped(Top, Dep, stack)
    /\ frames' = Continue(frames)
    /\ UNCHANGED <<src, exists, mtime, live, now, cache, stack, result, calls, unnamed, cycleSites,
                 created, earlier, probe, walk,
                   ondisk, loaded>>

\* lines 75 to 82: the dependency closes a cycle
LoopCycle ==
    /\ InLoop
    /\ ~Skipped(Top, Dep, stack)
    /\ OnStack(Dep, stack)
    /\ LET site == CyclicSite(Dep, stack)
           cyclic_dep == frames[site.frame].obj.dependencies[site.dep]
       IN /\ frames' = Continue([frames EXCEPT ![site.frame].obj =
                            AddError(@, cyclic_dep.range, CycleError(cyclic_dep, Top.file, Dep))])
          /\ cycleSites' = Append(cycleSites,
                            [frame |-> site.frame, file |-> frames[site.frame].file,
                             range |-> cyclic_dep.range])
    /\ UNCHANGED <<src, exists, mtime, live, now, cache, stack, result, calls, unnamed,
                 created, earlier, probe, walk,
                   ondisk, loaded>>

Relink == _relink_required(Dep.file_hint, Dep.module_name, update_usemodule_on_stack(Top, Dep))

\* line 84: _relink_required raises
LoopRelinkRaises ==
    /\ InLoop
    /\ ~Skipped(Top, Dep, stack)
    /\ ~OnStack(Dep, stack)
    /\ Relink.raised # None
    /\ Propagate(frames, stack, Relink.raised)
    /\ UNCHANGED <<src, exists, mtime, live, now, cache, calls, unnamed, cycleSites,
                 created, earlier, probe, walk,
                   ondisk, loaded>>

\* lines 84 to 93: the dependency is compiled and linked by a recursive call
LoopRecurse ==
    /\ InLoop
    /\ ~Skipped(Top, Dep, stack)
    /\ ~OnStack(Dep, stack)
    /\ Relink.raised = None /\ Relink.value
    /\ LET c == compile(Dep.file_hint, src[Dep.file_hint], exists[Dep.file_hint], unnamed,
                        walk.scopes, now)
       IN IF c.raised # None
          THEN \* caught at line 95, the frame pushed at line 86 is deleted at line 99
               /\ frames' = Continue([frames EXCEPT ![Len(frames)].obj = AddError(@, Dep.range, c.raised)])
               /\ UNCHANGED <<stack, unnamed, created, walk>>
          ELSE /\ Len(frames) < MaxFrames
               /\ created' = created + 1
               /\ stack' = [k \in DOMAIN stack \cup {Key(Dep)} |->
                               IF k = Key(Dep) THEN [frame |-> Len(frames), dep |-> Top.i]
                               ELSE stack[k]]
               /\ frames' = Append(frames,
                               Activation(Dep.file_hint, <<Dep.module_name>>, c.obj,
                                          ToplevelFor(Top, Dep), update_usemodule_on_stack(Top, Dep)))
               /\ unnamed' = c.count
               /\ walk' = Idle(c.scopes)
    /\ UNCHANGED <<src, exists, mtime, live, now, cache, result, calls, cycleSites,
                 earlier, probe, ondisk, loaded>>

\* lines 100 to 105: the linked dependency is loaded from the cache and linked
LoopLoad ==
    /\ InLoop
    /\ ~Skipped(Top, Dep, stack)
    /\ ~OnStack(Dep, stack)
    /\ Relink.raised = None /\ ~Relink.value
    /\ LET imported == _load_linked(update_usemodule_on_stack(Top, Dep), Dep.file_hint, Dep.module_name).obj
           linked == link_dependency(Top.obj, Dep, imported)
       IN IF linked.raised # None
          THEN Propagate(frames, stack, linked.raised)
          ELSE /\ frames' = Continue([frames EXCEPT ![Len(frames)].obj = linked.obj])
               /\ UNCHANGED <<stack, result>>
    /\ UNCHANGED <<src, exists, mtime, live, now, cache, calls, unnamed, cycleSites,
                 created, earlier, probe, walk,
                   ondisk, loaded>>

\* lines 106 to 108, and for a recursive call lines 94, 99 and 105 of the caller
Return ==
    /\ frames # <<>>
    /\ ~InLoop
    /\ LET obj == validate_linked_object(Top.obj)
       IN IF Len(frames) = 1
          THEN /\ frames' = <<>>
               /\ result' = [status |-> "returned", file |-> Top.file, obj |-> obj]
               /\ UNCHANGED <<cache, stack>>
          ELSE LET callers == SubSeq(frames, 1, Len(frames) - 1)
                   caller == callers[Len(callers)]
                   dep == caller.obj.dependencies[caller.i]
                   linked == link_dependency(caller.obj, dep, obj)
               IN /\ cache' = _store_linked(cache, update_usemodule_on_stack(caller, dep),
                                            dep.file_hint, dep.module_name, obj, now)
                  /\ IF linked.raised # None
                     THEN Propagate(callers, Delete(stack, Key(dep)), linked.raised)
                     ELSE /\ frames' = Continue([callers EXCEPT ![Len(callers)].obj = linked.obj])
                          /\ stack' = Delete(stack, Key(dep))
                          /\ UNCHANGED result
    /\ UNCHANGED <<src, exists, mtime, live, now, calls, unnamed, cycleSites,
                 created, earlier, probe, walk,
                   ondisk, loaded>>

\* number of changes of the workspace so far
Changes == now + Cardinality({f \in Files : ~exists[f]})

\* between two calls a file is saved (how = "disk") or edited in the editor (how = "live")
Modify(file, how) ==
    /\ frames = <<>>
    /\ calls < MaxCalls
    /\ Changes < MaxChanges
    /\ exists[file]
    /\ now' = now + 1
    /\ IF how = "disk"
       THEN mtime' = [mtime EXCEPT ![file] = now + 1] /\ UNCHANGED live
       ELSE live' = [live EXCEPT ![file] = now + 1] /\ UNCHANGED mtime
    /\ UNCHANGED <<src, exists, cache, frames, stack, result, calls, unnamed, cycleSites,
                 created, earlier, probe, walk,
                   ondisk, loaded>>

\* between two calls a file is removed
Remove(file) ==
    /\ frames = <<>>
    /\ calls < MaxCalls
    /\ Changes < MaxChanges
    /\ exists[file]
    /\ exists' = [exists EXCEPT ![file] = FALSE]
    /\ UNCHANGED <<src, mtime, live, now, cache, frames, stack, result, calls, unnamed, cycleSites,
                 created, earlier, probe, walk,
                   ondisk, loaded>>

(***************************************************************************)
(* Workspaces and specifications.                                          *)
(*                                                                         *)
(* Spec: every file holds a module named after the file, the files do not  *)
(* change.  SpecSymbols: files may hold an anonymous module or a module    *)
(* nested in an anonymous one, a symi declaration, and imports of modules  *)
(* by a generated name.  SpecWorkspace: files are saved, edited and        *)
(* removed between the calls.                                              *)
(***************************************************************************)
ImportLists(statements, n) ==
    {s \in UNION {[1..k -> statements] : k \in 0..n} :
        \A i, j \in DOMAIN s : i # j => s[i].module # s[j].module}

Edges(g) == Len(g["a"]) + Len(g["b"]) + Len(g["c"])

\* importmodule (export) and usemodule (no export) of the module named after the file
PlainImports == {st \in [module : Files, file : Files, export : BOOLEAN] : st.module = st.file}

\* imports that may also name the module by the name generated for an anonymous module
NamedImports ==
    {st \in [module : Files \cup {AnonymousName(0)}, file : Files, export : BOOLEAN] :
        st.module \in {st.file, AnonymousName(0)}}

PlainFile(imports) == [shape |-> "module", syms |-> <<>>, imports |-> imports]

Workspaces ==
    {[f \in Files |-> PlainFile(g[f])] :
        g \in {h \in [Files -> ImportLists(PlainImports, MaxDeps)] : Edges(h) <= MaxEdges}}

SmallWorkspaces ==
    {[f \in Files |-> PlainFile(g[f])] :
        g \in {h \in [Files -> ImportLists(PlainImports, MaxDeps)] : Edges(h) < MaxEdges}}

SmallGraphs == {h \in [Files -> ImportLists(NamedImports, MaxDeps - 1)] : Edges(h) < MaxEdges}

\* one file holds an anonymous module or a module nested in an anonymous module
ShapeWorkspaces ==
    {[f \in Files |-> [PlainFile(g[f]) EXCEPT !.shape = IF f = odd THEN shape ELSE @]] :
        g \in SmallGraphs, odd \in Files, shape \in {"module", "anonymous", "nested"}}

\* one file declares a symbol that carries the name of a module
SymWorkspaces ==
    {[f \in Files |-> [PlainFile(g[f]) EXCEPT !.syms = IF f = decl THEN <<name>> ELSE @]] :
        g \in SmallGraphs, decl \in Files, name \in Files}

SymbolWorkspaces == ShapeWorkspaces \cup SymWorkspaces

InitLinker ==
    /\ exists = [f \in Files |-> TRUE]
    /\ mtime = [f \in Files |-> 0]
    /\ live = [f \in Files |-> 0]
    /\ now = 0
    /\ cache = <<>>
    /\ frames = <<>>
    /\ stack = <<>>
    /\ result = [status |-> "none"]
    /\ calls = 0
    /\ unnamed = 0
    /\ cycleSites = <<>>
    /\ created = 0
    /\ earlier = [status |-> "none"]

Init == src \in Workspaces /\ InitLinker /\ probe = None /\ walk = Idle(0) /\ ondisk = None /\ loaded = None

InitSymbols ==
    src \in SymbolWorkspaces /\ InitLinker /\ probe = None /\ walk = Idle(0) /\ ondisk = None /\ loaded = None

InitWorkspace ==
    src \in SmallWorkspaces /\ InitLinker /\ probe = None /\ walk = Idle(0) /\ ondisk = None /\ loaded = None

\* in one file the statements of the module stand in an omtext environment
ScopedWorkspaces ==
    {[f \in Files |-> [PlainFile(g[f]) EXCEPT !.shape = IF f = odd THEN "scoped" ELSE @]] :
        g \in SmallGraphs, odd \in Files}

InitScoped ==
    src \in ScopedWorkspaces /\ InitLinker /\ probe = None /\ walk = Idle(0) /\ ondisk = None /\ loaded = None

Next ==
    \/ \E file \in Files : CompileAndLink(file)
    \/ LoopSkip
    \/ LoopCycle
    \/ LoopRecurse
    \/ LoopLoad
    \/ Return

NextWorkspace ==
    \/ Next
    \/ LoopRelinkRaises
    \/ \E file \in Files, how \in {"disk", "live"} : Modify(file, how)
    \/ \E file \in Files : Remove(file)

Spec == Init /\ [][Next]_vars

(***************************************************************************)
(* Functions tested alone: the arguments are drawn into probe, one step    *)
(* applies the function and leaves what it returned in result.             *)
(***************************************************************************)
Times == 0..MaxTime

RecompilationArgs ==
    [op : {"recompilation_required"},
     objectfile : [is_file : BOOLEAN, st_mtime : Times],
     file : [st_mtime : Times],
     time_modified : {None} \cup [py : {"float"}, value : Times]]

Applied(value) == [status |-> "applied", value |-> value]

Apply_recompilation_required ==
    /\ probe.op = "recompilation_required"
    /\ result.status = "none"
    /\ result' = Applied(recompilation_required(probe.objectfile, probe.file, probe.time_modified))
    /\ UNCHANGED <<src, exists, mtime, live, now, cache, frames, stack, calls, unnamed, cycleSites,
                   created, earlier, probe, walk,
                   ondisk, loaded>>

\* symbols for the functions of symbols.py
Names == {"a", "b"}
ProbeFile == "a"
Languages == {<<>>, <<"en">>}

ProbeDefs ==
    {DefSymbol(t, ProbeFile, n, noverb, noverbs, PUBLIC) :
        t \in {"SYMDEF", "DREF"}, n \in Names, noverb \in BOOLEAN, noverbs \in Languages}

ProbeModules == {ModuleSymbol(t, ProbeFile, n, 0) : t \in {"MODSIG", "MODULE"}, n \in Names}

Orphans == ProbeDefs \cup ProbeModules

\* a module "m" with the given children
Parent(children) ==
    [ModuleSymbol("MODULE", ProbeFile, "m", 0) EXCEPT !.children =
        [i \in DOMAIN children |-> [children[i] EXCEPT !.parent = ParentOf(ModuleSymbol("MODULE", ProbeFile, "m", 0))]]]

ChildLists == {<<>>} \cup {<<c>> : c \in Orphans} \cup {<<c, d>> : c \in Orphans, d \in Orphans}

\* a child list add_child can have built: alternatives of one name and reference type agree
Consistent(children) ==
    \A i, j \in DOMAIN children :
        (children[i].name = children[j].name
         /\ reference_type(children[i]) = reference_type(children[j]))
        => /\ children[i].noverb = children[j].noverb
           /\ children[i].noverbs = children[j].noverbs

AddChildArgs ==
    [op : {"add_child"},
     self : {Parent(children) : children \in {l \in ChildLists : Consistent(l)}},
     child : Orphans \cup {[c EXCEPT !.parent = ParentOf(RootSymbol(ProbeFile))] : c \in Orphans},
     alternative : BOOLEAN]

Apply_add_child ==
    /\ probe.op = "add_child"
    /\ result.status = "none"
    /\ result' = Applied(add_child(probe.self, probe.child, probe.alternative))
    /\ UNCHANGED <<src, exists, mtime, live, now, cache, frames, stack, calls, unnamed, cycleSites,
                   created, earlier, probe, walk,
                   ondisk, loaded>>

\* symdef statements: the two orders of {de, fr} are the two orders in which Python
\* may iterate over that set, depending on the order of insertion and the hash seed
MaxSymdefs == 3
SetOrders == {<<>>, <<"de">>, <<"de", "fr">>, <<"fr", "de">>}
Symdefs == [name : Names, noverb : BOOLEAN, noverbs : SetOrders]

SymdefArgs ==
    [op : {"_compile_symdef"},
     context : {<<>>, <<1>>},
     symdefs : UNION {[1..n -> Symdefs] : n \in 0..MaxSymdefs}]

\* the symdefs of the probe compiled in a module "m" (context <<1>>) or outside of any
Apply_compile_symdef ==
    /\ probe.op = "_compile_symdef"
    /\ result.status = "none"
    /\ LET inmodule == CompileModule(StexObject(ProbeFile, 0), <<>>, "m", ModuleLine, 0)
       IN result' = Applied(CompileSymdefs(inmodule.obj, probe.context, probe.symdefs, 1))
    /\ UNCHANGED <<src, exists, mtime, live, now, cache, frames, stack, calls, unnamed, cycleSites,
                   created, earlier, probe, walk,
                   ondisk, loaded>>

\* symbol tables for lookup: a root with a module or binding (its symbols at location
\* "a"), a second module (at "b") and root level definitions (at "c"); the trees are
\* built by add_child as the compiler calls it (alternatives for symdefs only); a child
\* that add_child refuses is not part of the tree
RECURSIVE WithChildren(_, _)
WithChildren(self, children) ==
    IF children = <<>> THEN self
    ELSE WithChildren(add_child(self, Head(children), reference_type(Head(children)) = "SYMDEF").self,
                      Tail(children))

UpTo(set, n) == UNION {[1..k -> set] : k \in 0..n}

Leaves(file) == {DefSymbol("SYMDEF", file, n, FALSE, <<>>, PUBLIC) : n \in Names}

Inner(file) ==
    Leaves(file)
    \cup {WithChildren(ScopeSymbol(file, "UNNAMED_SCOPE", 1), l) : l \in {<<>>} \cup {<<c>> : c \in {DefSymbol("SYMDEF", file, "a", FALSE, <<>>, PUBLIC)}}}

FirstModules ==
    {WithChildren(m, l) :
        m \in {ModuleSymbol("MODULE", "a", n, 0) : n \in Names} \cup {BindingSymbol("a", n) : n \in Names},
        l \in UpTo(Inner("a"), 2)}

SecondModules ==
    {WithChildren(ModuleSymbol("MODULE", "b", n, 0), l) : n \in Names, l \in UpTo(Leaves("b"), 1)}

ProbeTrees ==
    {WithChildren(RootSymbol("c"), <<m1, m2>> \o l) :
        m1 \in FirstModules, m2 \in SecondModules, l \in UpTo(Leaves("c"), 1)}

Identifiers == {<<n>> : n \in Names} \cup {<<n, m>> : n \in Names, m \in Names}

AcceptedKinds == {None, ReferenceType({"MODULE"}), ReferenceType({"SYMDEF"})}

LookupArgs ==
    {[op |-> "lookup", root |-> root, p |-> p, identifier |-> identifier,
      accepted_ref_type |-> accepted] :
        root \in ProbeTrees, p \in {<<>>, <<1>>, <<1, 1>>, <<1, 2>>, <<1, 1, 1>>, <<2>>, <<2, 1>>},
        identifier \in Identifiers, accepted \in AcceptedKinds}

Apply_lookup ==
    /\ probe.op = "lookup"
    /\ result.status = "none"
    /\ result' = Applied(lookup(probe.root, probe.p, probe.identifier, probe.accepted_ref_type))
    /\ UNCHANGED <<src, exists, mtime, live, now, cache, frames, stack, calls, unnamed, cycleSites,
                   created, earlier, probe, walk,
                   ondisk, loaded>>

\* objects for link_dependency: the imported file holds up to two modules or module
\* signatures, the importing object a module "m" that may hold an import already
ModulesOfFile ==
    {WithChildren([ModuleSymbol(t, "b", n, 0) EXCEPT !.access = access], l) :
        t \in {"MODSIG", "MODULE"}, n \in Names, access \in {PUBLIC, PRIVATE},
        l \in UpTo(Leaves("b"), 1)}

ImportedTables == {WithChildren(RootSymbol("b"), l) : l \in UpTo(ModulesOfFile, 2)}

ImportingTables ==
    {WithChildren(RootSymbol("a"), <<WithChildren(ModuleSymbol("MODULE", "a", "m", 0), l)>>) :
        l \in UpTo({ModuleSymbol("MODULE", "b", "a", 0)}, 1)}

LinkArgs ==
    {[op |-> "link_dependency",
      obj |-> [StexObject("a", 0) EXCEPT !.symbol_table = importing],
      dependency |-> [range |-> ImportLine(1), scope |-> <<1>>, module_name |-> n,
                      module_type_hint |-> "MODULE", file_hint |-> "b", export |-> TRUE],
      imported |-> [StexObject("b", 0) EXCEPT !.symbol_table = table]] :
        importing \in ImportingTables, n \in Names, table \in ImportedTables}

Apply_link_dependency ==
    /\ probe.op = "link_dependency"
    /\ result.status = "none"
    /\ result' = Applied(link_dependency(probe.obj, probe.dependency, probe.imported))
    /\ UNCHANGED <<src, exists, mtime, live, now, cache, frames, stack, calls, unnamed, cycleSites,
                   created, earlier, probe, walk,
                   ondisk, loaded>>

\* modules for import_from: up to three children, which are definitions (PUBLIC or
\* PRIVATE) and nested modules (PUBLIC or PRIVATE, with or without a definition); the
\* scope is a module "m" that may hold a module "a" already
MaxChildren == 3

ModuleChildren ==
    {DefSymbol("SYMDEF", "b", n, FALSE, <<>>, access) : n \in Names, access \in {PUBLIC, PRIVATE}}
    \cup {WithChildren([ModuleSymbol("MODULE", "b", n, 0) EXCEPT !.access = access], l) :
            n \in Names, access \in {PUBLIC, PRIVATE}, l \in UpTo(Leaves("b"), 1)}

ImportArgs ==
    {[op |-> "import_from",
      self |-> WithChildren(ModuleSymbol("MODULE", "a", "m", 0), held),
      module |-> WithChildren(ModuleSymbol("MODULE", "b", n, 0), l)] :
        held \in UpTo({ModuleSymbol("MODULE", "b", "a", 0)}, 1), n \in Names,
        l \in UpTo(ModuleChildren, MaxChildren)}

\* the objects before scope.import_from(module): the scope, and the table of the
\* imported object with the module as child of its root
ImportObjects(self, module) ==
    ObjectsOf("self", self, NoObject)
    @@ ObjectsOf("module", module, Object("imported", <<>>))
    @@ (Object("imported", <<>>) :>
            [RootSymbol(module.path) EXCEPT !.parent = NoObject,
                                            !.children = <<Object("module", <<>>)>>])

Apply_import_from ==
    /\ probe.op = "import_from"
    /\ result.status = "none"
    /\ result' = Applied(import_from(probe.self, probe.module)
                         @@ [objects |-> ImportFromObjects(ImportObjects(probe.self, probe.module),
                                                           Object("self", <<>>),
                                                           Object("module", <<>>)).objects])
    /\ UNCHANGED <<src, exists, mtime, live, now, cache, frames, stack, calls, unnamed, cycleSites,
                   created, earlier, probe, walk,
                   ondisk, loaded>>

\* linked objects with one module that holds one definition and a reference to it
ValidateArgs ==
    {[op |-> "validate_linked_object",
      linked |-> [StexObject(ProbeFile, 0) EXCEPT
                    !.id = 0,
                    !.symbol_table = WithChildren(RootSymbol(ProbeFile),
                        <<WithChildren(ModuleSymbol("MODULE", ProbeFile, ProbeFile, 0), <<d>>)>>),
                    !.references = <<[range |-> SymLine(1), scope |-> <<1>>, name |-> <<n>>,
                                      reference_type |-> {t}]>>]] :
        d \in ProbeDefs, n \in Names, t \in {"DEF", "MODULE"}}

Apply_validate_linked_object ==
    /\ probe.op = "validate_linked_object"
    /\ result.status = "none"
    /\ result' = Applied(validate_linked_object(probe.linked))
    /\ UNCHANGED <<src, exists, mtime, live, now, cache, frames, stack, calls, unnamed, cycleSites,
                   created, earlier, probe, walk, ondisk, loaded>>

FunctionArgs ==
    RecompilationArgs \cup AddChildArgs \cup SymdefArgs \cup LinkArgs \cup ImportArgs \cup ValidateArgs
    \cup {a \in LookupArgs : a.p \in Paths(a.root)}

InitFunctions ==
    /\ src = [f \in Files |-> PlainFile(<<>>)]
    /\ InitLinker
    /\ probe \in FunctionArgs
    /\ walk = None /\ ondisk = None /\ loaded = None

NextFunctions ==
    \/ Apply_recompilation_required
    \/ Apply_add_child
    \/ Apply_compile_symdef
    \/ Apply_lookup
    \/ Apply_link_dependency
    \/ Apply_import_from
    \/ Apply_validate_linked_object

SpecFunctions == InitFunctions /\ [][NextFunctions]_vars

SpecSymbols == InitSymbols /\ [][Next]_vars

SpecScoped == InitScoped /\ [][Next]_vars

SpecWorkspace == InitWorkspace /\ [][NextWorkspace]_vars

(***************************************************************************)
(* Compiler.compile step by step: the intermediate trees of a file are     *)
(* traversed, one step per enter or exit callback, then the object is      *)
(* written to its objectfile.  A node of a tree is named by its path       *)
(* (number of the root, then child numbers).                               *)
(***************************************************************************)
Tree(kind, name, children) == [kind |-> kind, name |-> name, children |-> children]

Statements(inmodule) ==
    {Tree("symdef", "a", <<>>)} \cup IF inmodule THEN {Tree("importmodule", "b", <<>>)} ELSE {}

Environments == {<<"scope", "omtext">>, <<"modsig", "a">>, <<"module", "a">>, <<"module", NoName>>}

\* environments holding at most one statement
SmallTrees(inmodule) ==
    UNION {{Tree(e[1], e[2], l) : l \in UpTo(Statements(inmodule \/ e[1] = "module"), 1)} :
           e \in Environments}

\* environments holding up to two statements or environments
LargeTrees ==
    UNION {{Tree(e[1], e[2], l) :
               l \in UpTo(Statements(e[1] = "module") \cup SmallTrees(e[1] = "module"), 2)} :
           e \in Environments}

\* parser.roots of the file "a"
Forests == {<<t>> : t \in LargeTrees} \cup {<<s, t>> : s \in SmallTrees(FALSE), t \in SmallTrees(FALSE)}

RECURSIVE TreeAt(_, _)
TreeAt(tree, p) == IF p = <<>> THEN tree ELSE TreeAt(tree.children[Head(p)], Tail(p))

NodeAt(roots, p) == TreeAt(roots[Head(p)], Tail(p))

\* location.range of the node at p
RangeOf(p) == 1000 * p[1] + (IF Len(p) > 1 THEN 100 * p[2] ELSE 0) + (IF Len(p) > 2 THEN 10 * p[3] ELSE 0)

\* IntermediateParseTree.traverse: the callbacks in the order they are made
RECURSIVE traverse(_, _)
traverse(tree, p) ==
    <<[callback |-> "enter", tree |-> p]>>
    \o Concat([i \in DOMAIN tree.children |-> traverse(tree.children[i], p \o <<i>>)])
    \o <<[callback |-> "exit", tree |-> p]>>

\* the tree of the bottom entry (None, root) of the context list: no node has this path
NoTree == <<>>

\* the handler of _compile_enter for the node: the object, the context it returns
\* and the two class counters afterwards
CompileNode(obj, current_context, tree, range, count, scopes) ==
    CASE tree.kind = "scope" ->
            _compile_scope(obj, current_context, tree.name, scopes + 1)
                @@ [count |-> count, scopes |-> scopes + 1]
      [] tree.kind = "modsig" ->
            _compile_modsig(obj, current_context, tree.name, range)
                @@ [count |-> count, scopes |-> scopes]
      [] tree.kind = "module" ->
            CompileModule(obj, current_context, tree.name, range, count) @@ [scopes |-> scopes]
      [] tree.kind = "symdef" ->
            [obj |-> _compile_symdef(obj, current_context,
                                     [name |-> tree.name, noverb |-> FALSE, noverbs |-> <<>>], range),
             context |-> NoContext, count |-> count, scopes |-> scopes]
      [] tree.kind = "importmodule" ->
            [obj |-> _compile_importmodule(obj, current_context,
                                           [module |-> tree.name, file |-> tree.name, export |-> TRUE],
                                           range),
             context |-> NoContext, count |-> count, scopes |-> scopes]

\* context = [(None, object.symbol_table)]
RootContext == <<[tree |-> NoTree, symbol |-> <<>>]>>

\* Compiler.compile up to the first callback of the traversal of the first root
CompileBegin ==
    /\ walk.status = "idle"
    /\ calls < MaxCalls
    /\ calls' = calls + 1
    /\ created' = created + 1
    /\ walk' = [status |-> "compiling", scopes |-> walk.scopes,
                obj |-> StexObject(ProbeFile, now),
                agenda |-> Concat([r \in DOMAIN probe |-> traverse(probe[r], <<r>>)]),
                context |-> RootContext,
                entered |-> <<>>]
    /\ UNCHANGED <<src, exists, mtime, live, now, cache, frames, stack, result, unnamed,
                   cycleSites, earlier, probe, ondisk, loaded>>

\* _compile_enter appending (tree, next_context) whatever the handler returned
CompileEnterAlwaysPush ==
    /\ walk.status = "compiling"
    /\ walk.agenda # <<>>
    /\ Head(walk.agenda).callback = "enter"
    /\ LET p == Head(walk.agenda).tree
           context == IF Len(p) = 1 THEN RootContext ELSE walk.context
           handled == CompileNode(walk.obj, context[Len(context)].symbol, NodeAt(probe, p),
                                  RangeOf(p), unnamed, walk.scopes)
       IN /\ walk' = [walk EXCEPT
                        !.obj = handled.obj,
                        !.scopes = handled.scopes,
                        !.agenda = Tail(@),
                        !.context = Append(context, [tree |-> p, symbol |-> handled.context]),
                        !.entered = Append(@, [tree |-> p, context |-> context,
                                               returned |-> handled.context])]
          /\ unnamed' = handled.count
    /\ UNCHANGED <<src, exists, mtime, live, now, cache, frames, stack, result, calls,
                   cycleSites, created, earlier, probe, ondisk, loaded>>

\* _compile_enter; the traversal of a root starts with a new context list
CompileEnter ==
    /\ walk.status = "compiling"
    /\ walk.agenda # <<>>
    /\ Head(walk.agenda).callback = "enter"
    /\ LET p == Head(walk.agenda).tree
           context == IF Len(p) = 1 THEN RootContext ELSE walk.context
           handled == CompileNode(walk.obj, context[Len(context)].symbol, NodeAt(probe, p),
                                  RangeOf(p), unnamed, walk.scopes)
       IN /\ walk' = [walk EXCEPT
                        !.obj = handled.obj,
                        !.scopes = handled.scopes,
                        !.agenda = Tail(@),
                        !.context = IF handled.context # NoContext
                                    THEN Append(context, [tree |-> p, symbol |-> handled.context])
                                    ELSE context,
                        !.entered = Append(@, [tree |-> p, context |-> context,
                                               returned |-> handled.context])]
          /\ unnamed' = handled.count
    /\ UNCHANGED <<src, exists, mtime, live, now, cache, frames, stack, result, calls,
                   cycleSites, created, earlier, probe, ondisk, loaded>>

\* _compile_exit
CompileExit ==
    /\ walk.status = "compiling"
    /\ walk.agenda # <<>>
    /\ Head(walk.agenda).callback = "exit"
    /\ LET tree == Head(walk.agenda).tree
           top == walk.context[Len(walk.context)]
       IN walk' = [walk EXCEPT
                     !.agenda = Tail(@),
                     !.context = IF top.tree = tree THEN SubSeq(@, 1, Len(@) - 1) ELSE @,
                     !.entered = SubSeq(@, 1, Len(@) - 1)]
    /\ UNCHANGED <<src, exists, mtime, live, now, cache, frames, stack, result, calls, unnamed,
                   cycleSites, created, earlier, probe, ondisk, loaded>>

\* the objectfile is written in this many writes
Chunks == 2

\* open(objectfile, 'wb'): the file exists and is empty
CompileOpen ==
    /\ walk.status = "compiling"
    /\ walk.agenda = <<>>
    /\ walk' = [walk EXCEPT !.status = "writing"]
    /\ ondisk' = [written |-> 0, obj |-> walk.obj]
    /\ UNCHANGED <<src, exists, mtime, live, now, cache, frames, stack, result, calls, unnamed,
                   cycleSites, created, earlier, probe, loaded>>

\* pickle.dump(object, fd): one more part of the pickle reaches the file
CompileDump ==
    /\ walk.status = "writing"
    /\ ondisk.written < Chunks
    /\ ondisk' = [ondisk EXCEPT !.written = @ + 1]
    /\ UNCHANGED <<src, exists, mtime, live, now, cache, frames, stack, result, calls, unnamed,
                   cycleSites, created, earlier, probe, walk, loaded>>

\* the file is closed and compile returns the object
CompileReturn ==
    /\ walk.status = "writing"
    /\ ondisk.written = Chunks
    /\ walk' = Idle(walk.scopes)
    /\ result' = Applied(walk.obj)
    /\ earlier' = result
    /\ UNCHANGED <<src, exists, mtime, live, now, cache, frames, stack, calls, unnamed,
                   cycleSites, created, probe, ondisk, loaded>>

\* Compiler.load_from_objectfile by a reader running beside compile: pickle.load is
\* given what the file holds at that moment and raises on a pickle that stops early
LoadFromObjectfile ==
    /\ loaded' = IF ondisk = None
                 THEN [raised |-> [py |-> "ObjectfileNotFoundError"], read |-> 0]
                 ELSE IF ondisk.written < Chunks
                 THEN [raised |-> [py |-> "EOFError"], read |-> ondisk.written]
                 ELSE [raised |-> None, read |-> ondisk.written, obj |-> ondisk.obj]
    /\ loaded' # loaded
    /\ UNCHANGED <<src, exists, mtime, live, now, cache, frames, stack, result, calls, unnamed,
                   cycleSites, created, earlier, probe, walk, ondisk>>

InitCompiler ==
    /\ src = [f \in Files |-> PlainFile(<<>>)]
    /\ InitLinker
    /\ probe \in Forests
    /\ walk = Idle(0)
    /\ ondisk = None
    /\ loaded = None

NextCompiler ==
    \/ CompileBegin
    \/ CompileEnter
    \/ CompileExit
    \/ CompileOpen
    \/ CompileDump
    \/ CompileReturn
    \/ LoadFromObjectfile

SpecCompiler == InitCompiler /\ [][NextCompiler]_vars

(***************************************************************************)
(* IntermediateParser.parse step by step.  The environments of the file    *)
(* form trees; an environment is named by its path.  What the classes make *)
(* of an environment is given with it: a tree ("tree"), a CompilerError    *)
(* ("fault") or nothing ("unknown").                                       *)
(***************************************************************************)
Environment(outcome, children) == [outcome |-> outcome, children |-> children]

Outcomes == {"tree", "fault", "unknown"}

InnermostEnvironments == {Environment(o, <<>>) : o \in Outcomes}

InnerEnvironments == {Environment(o, l) : o \in Outcomes, l \in UpTo(InnermostEnvironments, 2)}

OuterEnvironments == {Environment(o, l) : o \in Outcomes, l \in UpTo(InnerEnvironments, 1)}

\* the environments of a file
Documents ==
    {<<e>> : e \in OuterEnvironments}
    \cup {<<e, f>> : e \in InnermostEnvironments, f \in InnermostEnvironments}

\* LatexParser.walk: enter, the environments inside in their order, exit
LatexWalk(envs) == Concat([r \in DOMAIN envs |-> traverse(envs[r], <<r>>)])

\* the environment of the bottom entry (None, self.roots.append) of the stack
NoEnvironment == <<>>

\* IntermediateParser.parse up to the first callback.  A tree is written as the
\* environment it was made from and the environment of the tree it was added to
\* (NoEnvironment for a tree appended to roots).
ParseBegin ==
    /\ walk.status = "idle"
    /\ walk' = [status |-> "parsing", scopes |-> walk.scopes,
                agenda |-> LatexWalk(probe),
                stack |-> <<[env |-> NoEnvironment]>>,
                trees |-> <<>>,
                errors |-> <<>>,
                entered |-> <<>>,
                visited |-> {}]
    /\ UNCHANGED <<src, exists, mtime, live, now, cache, frames, stack, result, calls, unnamed,
                   cycleSites, created, earlier, probe, ondisk, loaded>>

\* _enter keeping the environment of a fault on the stack
ParseEnterPushFault ==
    /\ walk.status = "parsing"
    /\ walk.agenda # <<>>
    /\ Head(walk.agenda).callback = "enter"
    /\ LET env == Head(walk.agenda).tree
           outcome == NodeAt(probe, env).outcome
       IN walk' = [walk EXCEPT
                     !.agenda = Tail(@),
                     !.trees = IF outcome = "tree"
                               THEN Append(@, [env |-> env,
                                               parent |-> walk.stack[Len(walk.stack)].env])
                               ELSE @,
                     !.stack = IF outcome \in {"tree", "fault"} THEN Append(@, [env |-> env]) ELSE @,
                     !.errors = IF outcome = "fault"
                                THEN Append(@, [location |-> env, err |-> [py |-> "CompilerError"]])
                                ELSE @,
                     !.entered = Append(@, [env |-> env, stack |-> walk.stack]),
                     !.visited = @ \cup {env}]
    /\ UNCHANGED <<src, exists, mtime, live, now, cache, frames, stack, result, calls, unnamed,
                   cycleSites, created, earlier, probe, ondisk, loaded>>

\* IntermediateParser._enter
ParseEnter ==
    /\ walk.status = "parsing"
    /\ walk.agenda # <<>>
    /\ Head(walk.agenda).callback = "enter"
    /\ LET env == Head(walk.agenda).tree
           outcome == NodeAt(probe, env).outcome
       IN walk' = [walk EXCEPT
                     !.agenda = Tail(@),
                     !.trees = IF outcome = "tree"
                               THEN Append(@, [env |-> env,
                                               parent |-> walk.stack[Len(walk.stack)].env])
                               ELSE @,
                     !.stack = IF outcome = "tree" THEN Append(@, [env |-> env]) ELSE @,
                     !.errors = IF outcome = "fault"
                                THEN Append(@, [location |-> env, err |-> [py |-> "CompilerError"]])
                                ELSE @,
                     !.entered = Append(@, [env |-> env, stack |-> walk.stack]),
                     !.visited = @ \cup {env}]
    /\ UNCHANGED <<src, exists, mtime, live, now, cache, frames, stack, result, calls, unnamed,
                   cycleSites, created, earlier, probe, ondisk, loaded>>

\* IntermediateParser._exit
ParseExit ==
    /\ walk.status = "parsing"
    /\ walk.agenda # <<>>
    /\ Head(walk.agenda).callback = "exit"
    /\ LET env == Head(walk.agenda).tree
       IN walk' = [walk EXCEPT
                     !.agenda = Tail(@),
                     !.stack = IF @[Len(@)].env = env THEN SubSeq(@, 1, Len(@) - 1) ELSE @,
                     !.entered = SubSeq(@, 1, Len(@) - 1)]
    /\ UNCHANGED <<src, exists, mtime, live, now, cache, frames, stack, result, calls, unnamed,
                   cycleSites, created, earlier, probe, ondisk, loaded>>

\* parse returns
ParseReturn ==
    /\ walk.status = "parsing"
    /\ walk.agenda = <<>>
    /\ walk' = [walk EXCEPT !.status = "parsed"]
    /\ result' = Applied([trees |-> walk.trees, errors |-> walk.errors])
    /\ UNCHANGED <<src, exists, mtime, live, now, cache, frames, stack, calls, unnamed,
                   cycleSites, created, earlier, probe, ondisk, loaded>>

InitParser ==
    /\ src = [f \in Files |-> PlainFile(<<>>)]
    /\ InitLinker
    /\ probe \in Documents
    /\ walk = Idle(0)
    /\ ondisk = None
    /\ loaded = None

NextParser ==
    \/ ParseBegin
    \/ ParseEnter
    \/ ParseExit
    \/ ParseReturn

SpecParser == InitParser /\ [][NextParser]_vars

\* the steps of a running call of compile_and_link
Step == LoopSkip \/ LoopCycle \/ LoopRecurse \/ LoopLoad \/ Return

(***************************************************************************)
(* Properties.                                                             *)
(***************************************************************************)
ImportsOf(f) == Range(src[f].imports)

\* the distinct (file, module) targets of the dependencies of the workspace
DepTargets == {<<st.file, st.module>> : st \in UNION {ImportsOf(f) : f \in Files}}

\* the files reached from f over exported imports, in one or more steps
RECURSIVE ExportClosure(_, _)
ExportClosure(reached, n) ==
    IF n = 0 THEN reached
    ELSE ExportClosure(reached \cup {st.file : st \in {x \in UNION {ImportsOf(g) : g \in reached} : x.export}}, n - 1)

ExportReach(f) ==
    ExportClosure({st.file : st \in {x \in ImportsOf(f) : x.export}}, Cardinality(Files))

\* the objects held by the linker and its caller
Objects ==
    {frames[j].obj : j \in DOMAIN frames}
        \cup {cache[k].obj : k \in DOMAIN cache}
        \cup (IF result.status = "returned" THEN {result.obj} ELSE {})

IsCycleError(e) == e.err.py = "LinkError" /\ e.err.what = "cycle"

CycleErrors(obj) == SelectSeq(obj.errors, IsCycleError)

\* the bound of the recursion depth: the top-level call and one call per target
MaxDepth == 1 + Cardinality(DepTargets)

\* what an activation still has to do: two steps for a dependency not begun (call and
\* return), one for the dependency whose recursive call is pending, one to return
Work(frs, j) ==
    IF j = Len(frs)
    THEN 2 * (Len(frs[j].obj.dependencies) - frs[j].i + 1) + 1
    ELSE 2 * (Len(frs[j].obj.dependencies) - frs[j].i) + 2

RECURSIVE Rank(_, _)
Rank(frs, j) ==
    IF j > Len(frs) THEN 0
    ELSE Work(frs, j) * (2 * MaxDeps + 3) ^ (MaxDepth - j) + Rank(frs, j + 1)

\* the guards of the steps of a running call: one of them holds
Runnable ==
    IF ~InLoop THEN frames # <<>>
    ELSE \/ Skipped(Top, Dep, stack)
         \/ OnStack(Dep, stack)
         \/ /\ Relink.raised = None
            /\ \/ ~Relink.value
               \/ ~exists[Dep.file_hint]
               \/ Len(frames) < MaxFrames

\* C1: every call of compile_and_link terminates, also on cyclic import graphs and
\* self imports: the keys on the recursion stack are pairwise distinct (one key per
\* pending recursive call), so the recursion is never deeper than the number of
\* distinct (file, module) dependency targets; a running call can always take a
\* step, and every step decreases the work left (a number that is never negative).
C1_Terminates ==
    /\ [](frames # <<>> =>
            /\ Cardinality(DOMAIN stack) = Len(frames) - 1
            /\ Len(frames) <= MaxDepth
            /\ Runnable)
    /\ [][frames # <<>> =>
            /\ Len(frames') <= MaxDepth
            /\ Rank(frames', 1) < Rank(frames, 1)]_vars

\* a call on a file that imports itself, directly or indirectly, has re-entered the file and returned
C1_Witness ==
    /\ result.status = "returned"
    /\ result.file \in ExportReach(result.file)
    /\ cycleSites # <<>>

\* the dependency at hand passed the skip rules and its context is on the stack
CyclePending == InLoop /\ ~Skipped(Top, Dep, stack) /\ Key(Dep) \in DOMAIN stack

\* the activation that is suspended in the recursive call for the dependency with key k
Pusher(k) ==
    CHOOSE j \in 1..(Len(frames) - 1) : Key(frames[j].obj.dependencies[frames[j].i]) = k

\* C3: when the context of a dependency that passed the skip rules is on the stack,
\* one cycle LinkError is appended to the object of the activation that pushed the
\* frame, at the range of the dependency it pushed the frame for; no other object
\* changes (the dependency is not linked), no call is made, the loop goes on with
\* the next dependency and the call is not aborted.
C3_CycleSkipped ==
    [][CyclePending =>
        LET j == Pusher(Key(Dep))
            pushed == frames[j].obj.dependencies[frames[j].i]
        IN /\ Len(frames') = Len(frames)
           /\ \A n \in DOMAIN frames : n # j => frames'[n].obj = frames[n].obj
           /\ Len(frames'[j].obj.errors) = Len(frames[j].obj.errors) + 1
           /\ SubSeq(frames'[j].obj.errors, 1, Len(frames[j].obj.errors)) = frames[j].obj.errors
           /\ LET e == frames'[j].obj.errors[Len(frames'[j].obj.errors)]
              IN e.range = pushed.range /\ IsCycleError(e)
           /\ frames'[j].obj.symbol_table = frames[j].obj.symbol_table
           /\ frames'[Len(frames)].i = Top.i + 1
           /\ UNCHANGED <<cache, stack, result>>]_vars

\* an activation below the running one holds a cycle diagnostic while the call goes on
C3_Witness ==
    /\ Len(frames) >= 2
    /\ \E j \in 1..(Len(frames) - 1) : CycleErrors(frames[j].obj) # <<>>

\* the import statement of file f at range r
ImportAt(f, r) == {st \in ImportsOf(f) : \E n \in DOMAIN src[f].imports : src[f].imports[n] = st /\ ImportLine(n) = r}

\* the dependency of obj at range r was followed: the module was imported into its
\* scope, or linking it failed with a diagnostic of link_dependency or an exception
Followed(obj, d) ==
    \/ children_get(SymbolAt(obj.symbol_table, d.scope), d.module_name) # <<>>
    \/ \E n \in DOMAIN obj.errors :
          /\ obj.errors[n].range = d.range
          /\ \/ obj.errors[n].err.py # "LinkError"
             \/ obj.errors[n].err.what \in {"not defined", "not unique", "private"}

\* the dependencies an object is done with
Done(obj) ==
    {obj.dependencies[n] : n \in
        {m \in DOMAIN obj.dependencies :
            \A j \in DOMAIN frames : frames[j].obj = obj => m < frames[j].i}}

\* C4 (original): every cycle diagnostic is attached to the object of the file that
\* contains the dependency found on the stack, at the range of that dependency.
C4_AtClosingSite ==
    \A obj \in Objects : \A n \in DOMAIN obj.errors :
        IsCycleError(obj.errors[n]) =>
            /\ obj.errors[n].err.at_file = obj.file
            /\ obj.errors[n].err.at_range = obj.errors[n].range

\* C4 (amended): a cycle diagnostic is attached at the import that opened the cycle:
\* it sits in an object at the range of a dependency that this object's activation
\* followed by a recursive call (and linked afterwards), not at a dependency that was
\* skipped; the closing site named in its message is an import of the same (file, module).
C4_AtOriginalImport ==
    \A obj \in Objects : \A n \in DOMAIN obj.errors :
        IsCycleError(obj.errors[n]) =>
            \E m \in DOMAIN obj.dependencies :
                LET d == obj.dependencies[m]
                IN /\ d.range = obj.errors[n].range
                   /\ d.module_name = obj.errors[n].err.module
                   /\ \E st \in ImportAt(obj.errors[n].err.at_file, obj.errors[n].err.at_range) :
                         <<st.file, st.module>> = Key(d)
                   /\ d \in Done(obj) => Followed(obj, d)

\* the object returned for a file outside the cycle holds the diagnostic of a cycle closed in another file
C4_Witness ==
    /\ result.status = "returned"
    /\ result.file \notin ExportReach(result.file)
    /\ \E n \in DOMAIN result.obj.errors :
          /\ IsCycleError(result.obj.errors[n])
          /\ result.obj.errors[n].err.at_file # result.file

\* the modules imported into the scopes of the dependencies of obj
ImportedModules(obj) ==
    UNION {{c.name : c \in {x \in Range(SymbolAt(obj.symbol_table, d.scope).children) :
                                isinstance(x, "ModuleSymbol")}} :
           d \in Range(obj.dependencies)}

\* the loop goes on with the next dependency and nothing else happens
PureSkip == frames' = Continue(frames) /\ UNCHANGED <<cache, stack, result, unnamed>>

\* C9: a dependency that is not exported is skipped whenever the recursion stack is
\* not empty, so it is processed only by a top-level call; the linked objects in the
\* cache and the objects of the recursive calls hold only modules that their file
\* reaches over exported imports.
C9_PrivateNotReexported ==
    /\ [][InLoop /\ ~Dep.export /\ stack # <<>> => PureSkip]_vars
    /\ [](/\ \A k \in DOMAIN cache :
                ImportedModules(cache[k].obj) \subseteq ExportReach(cache[k].obj.file)
          /\ \A j \in DOMAIN frames :
                j >= 2 => ImportedModules(frames[j].obj) \subseteq ExportReach(frames[j].file))

\* a file with a usemodule was linked as a dependency and cached without the module it
\* uses, and a top-level call returned an object that holds a module imported by usemodule
C9_Witness ==
    /\ \E k \in DOMAIN cache :
          \E st \in ImportsOf(cache[k].obj.file) :
              ~st.export /\ st.module \notin ImportedModules(cache[k].obj)
    /\ result.status = "returned"
    /\ \E st \in ImportsOf(result.file) : ~st.export /\ st.module \in ImportedModules(result.obj)

\* C2: a call on a file of an import cycle that returns has recorded a cycle
\* diagnostic, and no import site got two of them; on an empty cache and on a
\* cache populated by earlier calls alike.
C2_OneDiagnosticPerSite ==
    result.status = "returned" /\ result.file \in ExportReach(result.file) =>
        /\ cycleSites # <<>>
        /\ \A m, n \in DOMAIN cycleSites : m # n => cycleSites[m] # cycleSites[n]

\* C5: in the object a call returned, every reference has a diagnostic at its range
\* or resolves to a non-empty list of symbols whose reference types are all
\* contained in the kinds the reference accepts.
C5_ReferencesChecked ==
    result.status = "returned" =>
        \A n \in DOMAIN result.obj.references :
            LET r == result.obj.references[n]
                resolved == lookup(result.obj.symbol_table, r.scope, r.name, None)
            IN \/ ErrorsAt(result.obj, r.range) # <<>>
               \/ /\ resolved # <<>>
                  /\ \A m \in DOMAIN resolved : reference_type(resolved[m]) \in r.reference_type

\* C6: no call of compile_and_link is left by the exception of a name collision.
C6_CollisionSwallowed ==
    result.status = "raised" =>
        result.err.py \notin {"DuplicateSymbolDefinedError", "InvalidSymbolRedifinitionException"}

\* C7: a call of compile_and_link is not left by the exception of a dependency
\* whose file does not exist: a FileNotFoundError leaves the call only for the
\* file the call was made for.
C7_DependencyFailureRecorded ==
    result.status = "raised" /\ result.err.py = "FileNotFoundError" =>
        result.err.file = result.file

\* the paths of the symbols of a symbol table
\* the names of the modules of an object whose effective visibility is not PUBLIC
HiddenModules(obj) ==
    {SymbolAt(obj.symbol_table, p).name :
        p \in {q \in Paths(obj.symbol_table) :
                  /\ isinstance(SymbolAt(obj.symbol_table, q), "ModuleSymbol")
                  /\ get_visible_access_modifier(obj.symbol_table, q) # PUBLIC}}

\* the call of link_dependency the next step makes: the activation whose object is
\* linked, the dependency and the imported object
LinkAttempts ==
    IF frames = <<>> THEN {}
    ELSE IF ~InLoop
    THEN IF Len(frames) = 1 THEN {}
         ELSE LET caller == frames[Len(frames) - 1]
              IN {[j |-> Len(frames) - 1, dep |-> caller.obj.dependencies[caller.i],
                   imported |-> validate_linked_object(Top.obj)]}
    ELSE IF ~Skipped(Top, Dep, stack) /\ ~OnStack(Dep, stack)
            /\ Relink.raised = None /\ ~Relink.value
    THEN {[j |-> Len(frames), dep |-> Dep,
           imported |-> _load_linked(update_usemodule_on_stack(Top, Dep),
                                     Dep.file_hint, Dep.module_name).obj]}
    ELSE {}

\* C8: when link_dependency is called for a dependency that names a module of the
\* imported object whose effective visibility is not PUBLIC, exactly one LinkError
\* is appended to the errors of the object, at the range of the dependency, and the
\* symbol table of the object stays as it is; the call does not raise.
C8_PrivateNotImported ==
    [][\A a \in LinkAttempts :
          a.dep.module_name \in HiddenModules(a.imported) =>
              /\ Len(frames') >= a.j
              /\ frames'[a.j].obj.symbol_table = frames[a.j].obj.symbol_table
              /\ Len(frames'[a.j].obj.errors) = Len(frames[a.j].obj.errors) + 1
              /\ SubSeq(frames'[a.j].obj.errors, 1, Len(frames[a.j].obj.errors))
                    = frames[a.j].obj.errors
              /\ LET e == frames'[a.j].obj.errors[Len(frames'[a.j].obj.errors)]
                 IN e.range = a.dep.range /\ e.err.py = "LinkError"
              /\ UNCHANGED result]_vars

\* a call returned an object with the diagnostic of the import of a private module
\* and without any imported module
C8_Witness ==
    /\ result.status = "returned"
    /\ \E n \in DOMAIN result.obj.errors :
          /\ result.obj.errors[n].err.py = "LinkError"
          /\ result.obj.errors[n].err.what = "private"
    /\ \A d \in Range(result.obj.dependencies) :
          children_get(SymbolAt(result.obj.symbol_table, d.scope), d.module_name) = <<>>

\* C10: below a usemodule, a dependency that names the top-level module of the
\* traversal is skipped: no recursive call, no link, the loop goes on.
C10_ToplevelSkipped ==
    [][/\ InLoop
       /\ Top._usemodule_on_stack
       /\ Top._toplevel_module # None
       /\ Dep.module_name = Top._toplevel_module.name
       => PureSkip]_vars

\* C11: when a call returns an object for the file the call before it returned an
\* object for, and nothing changed in between, it returns that very object (the
\* same identity), not a new one.
C11_ReturnsCachedObject ==
    /\ result.status = "returned"
    /\ earlier.status = "returned"
    /\ earlier.file = result.file
    => result.obj.id = earlier.obj.id

\* the files that contribute a symbol or a dependency file hint to an object
Contributors(obj) ==
    {SymbolAt(obj.symbol_table, p).path : p \in Paths(obj.symbol_table) \ {<<>>}}
        \cup {d.file_hint : d \in Range(obj.dependencies)}

\* the time t is not smaller than the modification time (of a file that is on disk)
\* and the live-edit time of f
NotOlder(t, f) == (exists[f] => mtime[f] <= t) /\ live[f] <= t

CacheKeys == BOOLEAN \X Files \X Files

C13_RecompilationRequired ==
    result.status = "applied" /\ probe \in RecompilationArgs =>
        (result.value <=>
            \/ ~probe.objectfile.is_file
            \/ probe.objectfile.st_mtime < probe.file.st_mtime
            \/ /\ probe.time_modified # None
               /\ probe.time_modified.value > probe.objectfile.st_mtime)

\* the function was applied to an objectfile as old as the source file and as the
\* time given, and returned false
C13_Witness ==
    /\ result.status = "applied"
    /\ probe \in RecompilationArgs
    /\ probe.objectfile.is_file
    /\ probe.time_modified # None
    /\ probe.time_modified.value = probe.objectfile.st_mtime
    /\ probe.file.st_mtime = probe.objectfile.st_mtime
    /\ probe.objectfile.st_mtime > 0
    /\ ~result.value

\* C14: add_child without alternative, given a child that has no parent yet: when the
\* parent has a child of the same name and reference type it raises
\* DuplicateSymbolDefinedError and leaves parent.children and child.parent as they were;
\* otherwise child becomes the last child of the parent (so the last entry under its
\* name) and child.parent is the parent
SameKind(parent, child) ==
    \E i \in DOMAIN parent.children :
        /\ parent.children[i].name = child.name
        /\ reference_type(parent.children[i]) = reference_type(child)

C14_Case ==
    /\ probe \in AddChildArgs
    /\ result.status = "applied"
    /\ ~probe.alternative
    /\ probe.child.parent = None

Languages_of(symdef) == {symdef.noverbs[i] : i \in DOMAIN symdef.noverbs}

RECURSIVE AcceptedSymdefs(_, _, _)
AcceptedSymdefs(symdefs, j, accepted) ==
    IF j > Len(symdefs) THEN accepted
    ELSE IF \A i \in DOMAIN accepted :
                symdefs[accepted[i]].name = symdefs[j].name
                => /\ symdefs[accepted[i]].noverb = symdefs[j].noverb
                   /\ Languages_of(symdefs[accepted[i]]) = Languages_of(symdefs[j])
    THEN AcceptedSymdefs(symdefs, j + 1, Append(accepted, j))
    ELSE AcceptedSymdefs(symdefs, j + 1, accepted)

C15_Case ==
    /\ probe \in SymdefArgs
    /\ probe.context = <<1>>
    /\ result.status = "applied"

C15_SymdefAlternatives ==
    C15_Case =>
        LET accepted == AcceptedSymdefs(probe.symdefs, 1, <<>>)
            module == result.value.symbol_table.children[1]
        IN /\ \A name \in Names :
                  LET found == children_get(module, name)
                      expected == SelectSeq(accepted, LAMBDA j : probe.symdefs[j].name = name)
                  IN /\ Len(found) = Len(expected)
                     /\ \A i \in DOMAIN expected :
                            /\ found[i].noverb = probe.symdefs[expected[i]].noverb
                            /\ Languages_of(found[i]) = Languages_of(probe.symdefs[expected[i]])
           /\ \A j \in DOMAIN probe.symdefs :
                  LET errors == SelectSeq(result.value.errors, LAMBDA e : e.range = SymdefLine(j))
                  IN IF \E i \in DOMAIN accepted : accepted[i] = j
                     THEN errors = <<>>
                     ELSE /\ Len(errors) = 1
                          /\ errors[1].err.py = "InvalidSymbolRedifinitionException"

\* C16: alternatives agree on their definition type: add_child with alternative of a
\* definition without a parent, under a name that already holds a definition of a
\* different def_type, raises InvalidSymbolRedifinitionException
OtherDefType(parent, child) ==
    \E i \in DOMAIN parent.children :
        /\ parent.children[i].name = child.name
        /\ isinstance(parent.children[i], "DefSymbol")
        /\ parent.children[i].type # child.type

C16_AlternativesAgreeOnDefType ==
    ( /\ probe \in AddChildArgs
      /\ result.status = "applied"
      /\ probe.alternative
      /\ probe.child.parent = None
      /\ isinstance(probe.child, "DefSymbol")
      /\ OtherDefType(probe.self, probe.child) )
    => result.value.raised.py = "InvalidSymbolRedifinitionException"

\* C17: for a symbol s that is or lies below a module or binding M (the nearest one), every
\* symbol lookup returns lies in the subtree rooted at M
RECURSIVE Subtree(_)
Subtree(sym) == {sym} \cup UNION {Subtree(sym.children[i]) : i \in DOMAIN sym.children}

RECURSIVE NearestModuleOrBinding(_, _)
NearestModuleOrBinding(root, p) ==
    IF SymbolAt(root, p).cls \in {"ModuleSymbol", "BindingSymbol"} THEN p
    ELSE NearestModuleOrBinding(root, ParentPath(p))

C17_Case ==
    /\ probe.op = "lookup"
    /\ result.status = "applied"
    /\ \E n \in 1..Len(probe.p) :
          SymbolAt(probe.root, SubSeq(probe.p, 1, n)).cls \in {"ModuleSymbol", "BindingSymbol"}

C18_LookupFiltered ==
    ( /\ probe.op = "lookup"
      /\ result.status = "applied"
      /\ FlagSet(probe.accepted_ref_type) )
    => \A i \in DOMAIN result.value :
          FlagIn(reference_type(result.value[i]), probe.accepted_ref_type)

\* C19: link_dependency resolves the module name among the symbols of the imported file:
\* with no match it appends exactly one LinkError "not defined" at the range of the
\* dependency, with more than one exactly one LinkError "not unique"; in both cases the
\* symbol table of obj (the children of the scope) is unchanged, and something is
\* imported only when there is exactly one match
Matches(table, name) == {i \in DOMAIN table.children : table.children[i].name = name}

C19_Case ==
    /\ probe.op = "link_dependency"
    /\ result.status = "applied"

C19_LinkDependencyMatches ==
    C19_Case =>
        LET n == Cardinality(Matches(probe.imported.symbol_table, probe.dependency.module_name))
            after == result.value.obj
            error(what) == [range |-> probe.dependency.range,
                            err |-> LinkError(what, probe.dependency.module_name)]
        IN /\ n = 0 => /\ after.errors = Append(probe.obj.errors, error("not defined"))
                       /\ after.symbol_table = probe.obj.symbol_table
                       /\ result.value.raised = None
           /\ n > 1 => /\ after.errors = Append(probe.obj.errors, error("not unique"))
                       /\ after.symbol_table = probe.obj.symbol_table
                       /\ result.value.raised = None
           /\ after.symbol_table # probe.obj.symbol_table => n = 1

C19_Witness ==
    /\ C19_Case
    /\ Cardinality(Matches(probe.imported.symbol_table, probe.dependency.module_name)) = 2
    /\ Len(result.value.obj.errors) = 1
    /\ result.value.obj.errors[1].err.what = "not unique"

\* C20: after scope.import_from(M) has completed, scope has gained a copy of M (same
\* name, module type and access modifier) whose children are exactly the copies of the
\* PUBLIC definitions of M, one per alternative in the order of M; every PUBLIC module
\* child of M has been imported the same way, unless the scope already holds a child of
\* its name and reference type (that collision is swallowed and the child is skipped);
\* nothing else is gained, and no child of M that is not PUBLIC has a copy under scope
CopiesOfDefs(module) ==
    LET public == SelectSeq(Concat(children_values(module)),
                            LAMBDA c : c.access = PUBLIC /\ isinstance(c, "DefSymbol"))
    IN [i \in DOMAIN public |-> [shallow_copy(public[i]) EXCEPT !.parent = ParentOf(module)]]

ImportedCopy(module, scope) ==
    [shallow_copy(module) EXCEPT !.parent = ParentOf(scope), !.children = CopiesOfDefs(module)]

PublicModules(module) ==
    {c \in Range(module.children) : c.access = PUBLIC /\ isinstance(c, "ModuleSymbol")}

RECURSIVE PublicModulesBelow(_)
PublicModulesBelow(module) ==
    PublicModules(module) \cup UNION {PublicModulesBelow(c) : c \in PublicModules(module)}

Gained == {i \in DOMAIN result.value.self.children : i > Len(probe.self.children)}

C20_Case ==
    /\ probe.op = "import_from"
    /\ result.status = "applied"
    /\ result.value.raised = None

C20_ImportFrom ==
    C20_Case =>
        LET before == probe.self.children
            after == result.value.self.children
        IN /\ SubSeq(after, 1, Len(before)) = before
           /\ after[Len(before) + 1] = ImportedCopy(probe.module, probe.self)
           /\ \A N \in PublicModules(probe.module) :
                  \/ \E i \in Gained : after[i] = ImportedCopy(N, probe.self)
                  \/ \E i \in DOMAIN after :
                        /\ after[i].name = N.name
                        /\ reference_type(after[i]) = reference_type(N)
           /\ \A i \in Gained :
                  \E N \in {probe.module} \cup PublicModulesBelow(probe.module) :
                      after[i] = ImportedCopy(N, probe.self)
           /\ \A c \in Range(probe.module.children) :
                  c.access # PUBLIC =>
                      \A i \in Gained : \A sym \in Subtree(after[i]) :
                          shallow_copy(sym) # shallow_copy(c)

\* C20 as stated: every PUBLIC module child of M has been imported
C20_EveryPublicModuleImported ==
    C20_Case =>
        \A N \in PublicModules(probe.module) :
            \E i \in DOMAIN result.value.self.children :
                result.value.self.children[i] = ImportedCopy(N, probe.self)

\* a module with a PRIVATE child, a PUBLIC definition and a PUBLIC module child that holds
\* a definition has been imported
C20_Witness ==
    /\ C20_Case
    /\ \E c \in Range(probe.module.children) : c.access # PUBLIC
    /\ CopiesOfDefs(probe.module) # <<>>
    /\ \E N \in PublicModules(probe.module) :
          \E i \in Gained : /\ result.value.self.children[i] = ImportedCopy(N, probe.self)
                             /\ N.children # <<>>

(***************************************************************************)
(* Properties of Compiler.compile (SpecCompiler).                          *)
(***************************************************************************)
\* the module symbols of the symbol table of obj that are named like the file
ModulesNamedLikeFile(obj) ==
    {p \in Paths(obj.symbol_table) :
        LET sym == SymbolAt(obj.symbol_table, p)
        IN sym.cls = "ModuleSymbol" /\ sym.type \in {"MODSIG", "MODULE"} /\ sym.name = obj.file}

\* C21: the symbol table of the object compile returns holds at most one module symbol
\* (MODSIG or MODULE) whose name is the stem of the file, whatever modsig and module
\* environments of that name the file holds.
C21_AtMostOneModuleOfFile ==
    result.status = "applied" => Cardinality(ModulesNamedLikeFile(result.value)) <= 1

\* an object without the fields that tell one compile from the next by design
ModuloCreationTime(obj) == [obj EXCEPT !.creation_time = 0, !.id = 0]

\* C22: two calls of compile on the same unchanged file in one process return objects
\* that are equal but for creation_time: same symbols, dependencies, references and
\* diagnostics, also for files with scope environments or anonymous modules.
C22_CompileIdempotent ==
    (result.status = "applied" /\ earlier.status = "applied")
        => ModuloCreationTime(result.value) = ModuloCreationTime(earlier.value)

\* C23: a reader running beside compile is given a complete objectfile, the previous
\* or the new one, never a file that is written in part.
C23_NoPartialRead ==
    (loaded # None /\ loaded.raised.py # "ObjectfileNotFoundError") => loaded.read = Chunks

\* the symbols of the classes that open a context (modules and scopes)
ContextSymbols(obj) ==
    {p \in Paths(obj.symbol_table) :
        SymbolAt(obj.symbol_table, p).cls \in {"ModuleSymbol", "ScopeSymbol"}}

\* the callback that is made next
NextCallback(callback) ==
    /\ walk.status = "compiling"
    /\ walk.agenda # <<>>
    /\ Head(walk.agenda).callback = callback

\* the enter callback pushes (node, context) iff the handler put a new context symbol
\* into the symbol table, and the pair names the node and that symbol
C26_PushIffReturned ==
    (NextCallback("enter") /\ walk' # walk) =>
        LET new == ContextSymbols(walk'.obj) \ ContextSymbols(walk.obj)
        IN IF new = {}
           THEN walk'.context = walk.context
           ELSE \E c \in new :
                    walk'.context = Append(walk.context, [tree |-> Head(walk.agenda).tree, symbol |-> c])

\* the exit callback of a node leaves the stack as it was before the enter callback of
\* the node
C26_ExitRestores ==
    (NextCallback("exit") /\ walk' # walk) =>
        /\ walk.entered[Len(walk.entered)].tree = Head(walk.agenda).tree
        /\ walk'.context = walk.entered[Len(walk.entered)].context

\* C26: during the traversal of compile the context stack is never empty and its bottom
\* entry is (None, root); entering a node pushes (node, context) iff the handler of the
\* node returned a context symbol; after the exit callback of a node the stack is what
\* it was before the enter callback of the node; so each root is entered, and the
\* traversal is left, with the stack [(None, root)], also when a handler returned no
\* context.
C26_ContextStack ==
    /\ [](walk.status = "compiling" =>
            /\ walk.context # <<>>
            /\ walk.context[1] = RootContext[1]
            /\ (walk.agenda = <<>> \/ (Len(Head(walk.agenda).tree) = 1 /\ NextCallback("enter")))
                   => walk.context = RootContext)
    /\ [][C26_PushIffReturned /\ C26_ExitRestores]_vars

\* a second modsig of the name of the first was entered and left: its handler returned
\* no context and the traversal ends with the stack [(None, root)]
C26_Witness ==
    /\ walk.status = "compiling"
    /\ walk.agenda = <<>>
    /\ Len(probe) = 2
    /\ probe[1].kind = "modsig" /\ probe[2].kind = "modsig"
    /\ probe[2].children # <<>>
    /\ Cardinality(ModulesNamedLikeFile(walk.obj)) = 1
    /\ walk.context = RootContext

(***************************************************************************)
(* Properties of Linker.validate_linked_object (SpecFunctions).            *)
(***************************************************************************)
\* the diagnostics of the class cls at range
DiagnosticsAt(obj, range, cls) ==
    {n \in DOMAIN obj.errors : obj.errors[n].range = range /\ obj.errors[n].err.py = cls}

\* C24: for every reference that resolves to a definition marked noverb, validation
\* appends a LinkWarning at the range of the reference (and likewise when the language
\* of the current binding is one of the noverbs of the definition).  Stated for the
\* references of type DEF, which are not reported as references of the wrong type.
C24_NoverbWarned ==
    (probe.op = "validate_linked_object" /\ result.status = "applied") =>
        \A n \in DOMAIN probe.linked.references :
            LET ref == probe.linked.references[n]
                resolved == lookup(probe.linked.symbol_table, ref.scope, ref.name, None)
            IN \A j \in DOMAIN resolved :
                (resolved[j].cls = "DefSymbol" /\ resolved[j].noverb /\ "DEF" \in ref.reference_type)
                    => DiagnosticsAt(result.value, ref.range, "LinkWarning") # {}

(***************************************************************************)
(* Properties of the filter on required_symbol_names (SpecScoped).         *)
(***************************************************************************)
\* the module that lexically encloses the dependency is named in required_symbol_names
EnclosingModuleRequired(fr, dep) ==
    LET module == get_current_module(fr.obj.symbol_table, dep.scope)
    IN module # None /\ module.name \in Range(fr.required_symbol_names)

\* C25: in a call with required modules a dependency is processed iff the module that
\* lexically encloses it is named among them, also when the dependency stands in a
\* scope environment of that module.  (Processed: not passed over by the loop; the
\* dependencies that are passed over as a usemodule below the top level or as the import
\* of the top-level module are left aside.)
C25_RequiredModulesFilter ==
    [][(InLoop /\ Top.required_symbol_names # <<>>) =>
          /\ ~EnclosingModuleRequired(Top, Dep) => PureSkip
          /\ (/\ EnclosingModuleRequired(Top, Dep)
              /\ ~SkipPrivateImport(Dep, stack)
              /\ ~SkipToplevel(Top, Dep)) => ~PureSkip]_vars

(***************************************************************************)
(* Properties of IntermediateParser.parse (SpecParser).                    *)
(***************************************************************************)
\* the paths of the environments of the file
EnvironmentPaths == UNION {{<<r>> \o q : q \in Paths(probe[r])} : r \in DOMAIN probe}

\* the nearest environment around env that a tree was made from, or NoEnvironment
RECURSIVE NearestTree(_)
NearestTree(env) ==
    IF Len(env) <= 1 THEN NoEnvironment
    ELSE LET around == SubSeq(env, 1, Len(env) - 1)
         IN IF NodeAt(probe, around).outcome = "tree" THEN around ELSE NearestTree(around)

\* the _enter callback of an environment with a fault leaves the stack alone
C27_FaultPushesNothing ==
    (/\ walk.status = "parsing" /\ walk.agenda # <<>> /\ walk' # walk
     /\ Head(walk.agenda).callback = "enter"
     /\ NodeAt(probe, Head(walk.agenda).tree).outcome = "fault") => walk'.stack = walk.stack

\* the _exit callback of an environment leaves the stack as it was before its _enter
C27_ExitRestores ==
    (/\ walk.status = "parsing" /\ walk.agenda # <<>> /\ walk' # walk
     /\ Head(walk.agenda).callback = "exit")
        => /\ walk.entered[Len(walk.entered)].env = Head(walk.agenda).tree
           /\ walk'.stack = walk.entered[Len(walk.entered)].stack

\* C27: when the classification of an environment raises a CompilerError, the error is
\* recorded in errors at the location of the environment and no tree is made or pushed
\* for it; the environments inside it are still visited, and the trees made from them
\* are added to the tree of the nearest environment around them that a tree was made
\* from (or to the roots); the stack after the exit of an environment is the stack
\* before its enter.
C27_FaultSuppressesEnvironment ==
    /\ [](walk.status \in {"parsing", "parsed"} =>
            /\ \A env \in walk.visited :
                  NodeAt(probe, env).outcome = "fault" =>
                      /\ \E n \in DOMAIN walk.errors : walk.errors[n].location = env
                      /\ \A n \in DOMAIN walk.trees : walk.trees[n].env # env
                      /\ \A n \in DOMAIN walk.stack : walk.stack[n].env # env
            /\ \A n \in DOMAIN walk.trees : walk.trees[n].parent = NearestTree(walk.trees[n].env)
            /\ walk.status = "parsed" =>
                  /\ walk.visited = EnvironmentPaths
                  /\ walk.stack = <<[env |-> NoEnvironment]>>
                  /\ {walk.trees[n].env : n \in DOMAIN walk.trees}
                        = {env \in EnvironmentPaths : NodeAt(probe, env).outcome = "tree"})
    /\ [][C27_FaultPushesNothing /\ C27_ExitRestores]_vars

\* a file was parsed in which a tree from inside an environment with a fault was added
\* to the tree of the environment around the fault, or appended to the roots because
\* the environment around the fault has a fault as well
C27_Witness ==
    /\ walk.status = "parsed"
    /\ \E n \in DOMAIN walk.trees :
          /\ Len(walk.trees[n].env) = 3
          /\ NodeAt(probe, SubSeq(walk.trees[n].env, 1, 2)).outcome = "fault"
          /\ \/ walk.trees[n].parent = SubSeq(walk.trees[n].env, 1, 1)
             \/ /\ walk.trees[n].parent = NoEnvironment
                /\ NodeAt(probe, SubSeq(walk.trees[n].env, 1, 1)).outcome = "fault"

(***************************************************************************)
(* Properties of the recursion stack (SpecWorkspace).                      *)
(***************************************************************************)
\* the dependency each activation but the innermost is at: the key it pushed
Chain == [j \in 1..(Len(frames) - 1) |-> Key(frames[j].obj.dependencies[frames[j].i])]

\* the stack holds the chain of dependencies from the top-level file to the file that
\* is linked, each key once, and is empty when no call runs
C28_StackIsChain ==
    /\ DOMAIN stack = {Chain[j] : j \in DOMAIN Chain}
    /\ \A i, j \in DOMAIN Chain : i # j => Chain[i] # Chain[j]
    /\ \A j \in DOMAIN Chain :
          /\ stack[Chain[j]] = [frame |-> j, dep |-> frames[j].i]
          /\ frames[j + 1].file = Chain[j][1]
          /\ frames[j + 1].required_symbol_names = <<Chain[j][2]>>

\* a step that enters a recursive call adds the key of the dependency and nothing else;
\* a step in which calls return or raise removes the keys they were called with and
\* nothing else
C28_PushedAndRemoved ==
    frames # <<>> =>
        IF Len(frames') > Len(frames)
        THEN /\ Key(Dep) \notin DOMAIN stack
             /\ DOMAIN stack' = DOMAIN stack \cup {Key(Dep)}
             /\ \A k \in DOMAIN stack : stack'[k] = stack[k]
        ELSE LET kept == {Chain[j] : j \in 1..(Len(frames') - 1)}
             IN /\ DOMAIN stack' = kept
                /\ \A k \in kept : stack'[k] = stack[k]

\* C28: every recursive call is made with its key (file_hint, module_name) on the stack
\* and the key is removed when the call returns or raises: at every moment the stack
\* is the chain of dependencies from the top-level file to the file that is linked, no
\* key twice; a call leaves the keys below its own as they were, and a top-level call
\* ends with an empty stack.
C28_StackRestored ==
    /\ []C28_StackIsChain
    /\ [][C28_PushedAndRemoved]_vars

\* a top-level call returned with an empty stack after a recursive call returned (its
\* object is in the cache) and another raised (the exception is recorded)
C28_Witness ==
    /\ frames = <<>>
    /\ stack = <<>>
    /\ result.status = "returned"
    /\ cache # <<>>
    /\ \E n \in DOMAIN result.obj.errors :
          result.obj.errors[n].err.py \in {"FileNotFoundError", "DuplicateSymbolDefinedError"}

(***************************************************************************)
(* Properties of import_from on objects (SpecFunctions).                   *)
(***************************************************************************)
C30_Case ==
    /\ probe.op = "import_from"
    /\ result.status = "applied"

C30_CachedNeverMutated ==
    /\ [](\A k \in DOMAIN cache : \A j \in DOMAIN frames : cache[k].obj.id # frames[j].obj.id)
    /\ [][\A k \in DOMAIN cache \cap DOMAIN cache' :
             cache'[k].obj.id = cache[k].obj.id => cache'[k].obj = cache[k].obj]_vars

(***************************************************************************)
(* Properties of the linker cache (Spec).                                  *)
(***************************************************************************)
\* C29: what compile_and_link returns does not depend on what earlier calls left in
\* the cache.  For a file that is linked twice while no file changes: the second call,
\* which finds the cache the first call filled, returns an object with the symbol
\* table and the diagnostics of the object the first call returned on the empty cache.
C29_CacheHistoryIndependent ==
    (/\ result.status = "returned"
     /\ earlier.status = "returned"
     /\ earlier.file = result.file)
        => /\ result.obj.symbol_table = earlier.obj.symbol_table
           /\ result.obj.errors = earlier.obj.errors

====
